---- MODULE Spec2Model ----
(***************************************************************************)
(* Model of the supervised reconnecting streams of src/src/websocket.rs:   *)
(* one spawned task per subscription (ticker_stream, kline_stream,         *)
(* trade_stream, depth_stream, mini_ticker_stream, combined_stream), the   *)
(* bounded mpsc channel it feeds, and the consumer holding the receiver    *)
(* (Spec); of the admission gate of src/src/rate_limiter.rs and its        *)
(* construction (SpecGate, SpecMinute, SpecGateFair, SpecSolo); of the     *)
(* retry executor request_with_retry of src/src/client.rs followed by      *)
(* handle_response (SpecRetry); of the endpoints of one BinanceClient      *)
(* called by several tasks (SpecClient); of the opening of a subscription  *)
(* (SpecOpen); of get_klines (SpecKlines); and of the retry executor with  *)
(* integers of the width of their types (SpecWide). Each specification     *)
(* moves its own variables and leaves the others alone.                    *)
(***************************************************************************)
EXTENDS Integers, Sequences, FiniteSets, TLC

(***************************************************************************)
(* Bounds of the model.                                                    *)
(***************************************************************************)
\* Capacity of the output channel. The source creates it with
\* mpsc::channel(100); the model is parametric in the capacity and is
\* explored with a small one so that the full channel is reached.
ChannelCapacity == 2
\* Number of text frames the transports deliver in one behaviour.
MaxFrames == 3
\* Number of transports that get opened in one behaviour.
MaxConns == 2
\* Number of tasks that call acquire on the shared gate.
NumCallers == 2
\* Ticks after the construction of the gate for which the clock and the
\* count of permits are kept; time itself goes on.
MaxTime == 6
\* Largest argument given to RateLimiter::per_second.
MaxRate == 3
\* Ticks in the interval after which the quota replenishes one permit.
Period == 2
\* Largest max_retries configured.
MaxConfigRetries == 3
\* Longest text of a Retry-After header.
MaxHeaderLen == 2
\* Largest max_retries of the client shared by several tasks.
MaxClientRetries == 2
\* Rounds of the retry loop followed when the counters keep their width.
MaxWideAttempts == 66

(***************************************************************************)
(* Program constants.                                                      *)
(***************************************************************************)
\* connect_with_retry: let max_retries = 5;
max_retries == 5
\* config.rs: fn default_max_retries() -> u32 { 3 }
default_max_retries == 3

VARIABLES
    kind,        \* which stream handler the spawned task runs
    pc,          \* position of the supervisor task
    attempts,    \* connect_with_retry's local attempt counter
    timer,       \* seconds left of the sleep in progress
    slept,       \* seconds elapsed of the sleep in progress
    transport,   \* "open" while the task owns a ws_stream, else "none"
    conns,       \* number of transports opened so far
    frames,      \* number of text frames read so far (the last frame's id)
    segStart,    \* value of frames when the current transport was opened
    pending,     \* the envelope the task is pushing with tx.send
    pingData,    \* payload of the ping being answered, 0 when there is none
    pongOut,     \* payload of the pong sent since the last frame was read, or 0
    lastFrame,   \* kind of the frame ws_stream.next() yielded last, or "none"
    chan,        \* contents of the mpsc channel, oldest first
    rxAlive,     \* the consumer still holds the receiver
    delivered,   \* ids of the text frames whose envelope the consumer received
    failedPush,  \* tag of the first envelope whose tx.send returned Err
    opening      \* position of the caller of the stream function: "called",
                 \* "spawned" (the task exists, Ok(rx) is not returned yet)
                 \* or "returned"

wsVars == <<kind, pc, attempts, timer, slept, transport, conns, frames,
            segStart, pending, pingData, pongOut, lastFrame, chan, rxAlive,
            delivered, failedPush, opening>>

(***************************************************************************)
(* State of the admission gate of src/src/rate_limiter.rs and of its       *)
(* users. Time is counted in ticks; the gate's clock, like the governor    *)
(* crate's, starts when the limiter is built.                              *)
(***************************************************************************)
VARIABLES
    gate,        \* outcome of the construction: "unbuilt", "ready",
                 \* "config_error", "http_error" or "panicked"
    quota,       \* constructor called, its argument, and the Quota built
    tat,         \* the limiter's state: the theoretical arrival time, as
                 \* [some |-> FALSE] before the first check and then as its
                 \* distance ahead of the clock
    clock,       \* ticks since the construction, up to MaxTime
    admitted,    \* permits granted so far, kept while clock < MaxTime
    lastAdmit,   \* value of clock at the latest of them
    cpc,         \* position of each acquire caller
    wait,        \* ticks left of each caller's sleep inside until_ready
    tryRes,      \* result of the try_acquire call in progress
    winKind,     \* the observed time window: "none", "burst", "minute",
                 \* "closed"
    winAge,      \* ticks since the window was opened
    winCount     \* permits granted in the window

gateVars == <<gate, quota, tat, clock, admitted, lastAdmit, cpc, wait,
              tryRes, winKind, winAge, winCount>>

(***************************************************************************)
(* State of one call of BinanceClient::request_with_retry of               *)
(* src/src/client.rs.                                                      *)
(***************************************************************************)
VARIABLES
    enable_retries,  \* self.config.enable_retries
    cfg_max_retries, \* self.config.max_retries
    rpc,             \* position of the call
    max_attempts,    \* the local max_attempts
    rattempts,       \* the local counter attempts
    calls,           \* number of invocations of the factory f
    fails,           \* kinds of the failed attempts so far, oldest first
    delay,           \* milliseconds of the backoff sleep in progress
    sleeps,          \* number of backoff sleeps started
    result,          \* what the call returned: "none" until it returns
    response,        \* the Response it returned, for result "ok"
    handled          \* what handle_response made of that response

reqVars == <<enable_retries, cfg_max_retries, rpc, max_attempts, rattempts,
             calls, fails, delay, sleeps, result, response, handled>>

(***************************************************************************)
(* State of the endpoint calls in progress on one BinanceClient shared by  *)
(* several tasks (the client is Clone; its rate limiter is shared through  *)
(* an Arc). Each task makes one call at a time.                            *)
(***************************************************************************)
VARIABLES
    endpoint,    \* what each task called: "data" (get_ticker_price and the
                 \* other data endpoints), "ping" (ping, health_check), or
                 \* "none"
    epc,         \* position of each task's call
    eattempts,   \* the local counter attempts of each call
    emax,        \* the local max_attempts of each call
    einvoked,    \* invocations of the closure by each call
    esent,       \* HTTP requests sent by each call
    eretries,    \* backoff sleeps each call has completed
    elast,       \* kind of the failure each call is backing off from
    edelay,      \* milliseconds of each call's backoff sleep in progress
    sent,        \* requests sent by data endpoints, kept while
                 \* clock < MaxTime
    elimit       \* the limit argument of each task's get_klines call

callVars == <<endpoint, epc, eattempts, emax, einvoked, esent, eretries,
              elast, edelay, sent, elimit>>

(***************************************************************************)
(* State of one call of request_with_retry whose integers keep the width   *)
(* of their Rust types: a u32 is a pair and a u64 a quadruple of 16-bit    *)
(* limbs, least significant first.                                         *)
(***************************************************************************)
VARIABLES
    wbuild,      \* how the crate was built: "debug" (overflow checks on, an
                 \* overflow panics) or "release" (off, it wraps)
    wcfg,        \* self.config.max_retries, a u32
    wpc,         \* position of the call
    wmax,        \* the local max_attempts, a u32
    watt,        \* the local counter attempts
    wdelay,      \* milliseconds of the backoff sleep in progress, a u64
    wover        \* the operation that overflowed: "none", "add" (+ 1),
                 \* "pow" (2u64.pow) or "mul" (100 *, 500 *)

wideVars == <<wbuild, wcfg, wpc, wmax, watt, wdelay, wover>>

Kinds == {"ticker", "kline", "trade", "depth", "mini_ticker", "raw"}

\* The combined stream runs raw_stream_handler, the others a typed handler.
IsRaw(k) == k = "raw"

Env(tag, id) == [tag |-> tag, id |-> id]
NoEnv == Env("none", 0)

\* The subscription task after it has ended and its channel is gone: the
\* state the stream variables keep while the gate or a request is examined.
WsParked ==
    /\ kind = "raw"
    /\ pc = "done"
    /\ attempts = 0
    /\ timer = 0
    /\ slept = 0
    /\ transport = "none"
    /\ conns = 0
    /\ frames = 0
    /\ segStart = 0
    /\ pending = NoEnv
    /\ pingData = 0
    /\ pongOut = 0
    /\ lastFrame = "none"
    /\ chan = <<>>
    /\ rxAlive = FALSE
    /\ delivered = <<>>
    /\ failedPush = "none"
    /\ opening = "returned"

Callers == 1..NumCallers

NoQuota == [path |-> "none", n |-> 0, timeout |-> 0, burst |-> 0]

\* No RateLimiter exists yet and nobody is calling.
GateInit ==
    /\ gate = "unbuilt"
    /\ quota = NoQuota
    /\ tat = [some |-> FALSE, lag |-> 0]
    /\ clock = 0
    /\ admitted = 0
    /\ lastAdmit = 0
    /\ cpc = [c \in Callers |-> "idle"]
    /\ wait = [c \in Callers |-> 0]
    /\ tryRes = "idle"
    /\ winKind = "none"
    /\ winAge = 0
    /\ winCount = 0

\* The value of the header Retry-After of a response: absent, bytes that
\* are not visible ASCII, or a text.
NoHeader == [form |-> "missing", text |-> <<>>]
NoResponse == [status |-> 0, retry_after |-> NoHeader, body |-> "none"]
NotHandled == [kind |-> "none", code |-> 0, retry_after_seconds |-> 0]

\* No request is in progress.
RetryParked ==
    /\ enable_retries = TRUE
    /\ cfg_max_retries = 0
    /\ rpc = "idle"
    /\ max_attempts = 0
    /\ rattempts = 0
    /\ calls = 0
    /\ fails = <<>>
    /\ delay = 0
    /\ sleeps = 0
    /\ result = "none"
    /\ response = NoResponse
    /\ handled = NotHandled

\* No task is calling an endpoint.
CallsParked ==
    /\ endpoint = [c \in Callers |-> "none"]
    /\ epc = [c \in Callers |-> "idle"]
    /\ eattempts = [c \in Callers |-> 0]
    /\ emax = [c \in Callers |-> 0]
    /\ einvoked = [c \in Callers |-> 0]
    /\ esent = [c \in Callers |-> 0]
    /\ eretries = [c \in Callers |-> 0]
    /\ elast = [c \in Callers |-> "none"]
    /\ edelay = [c \in Callers |-> 0]
    /\ sent = 0
    /\ elimit = [c \in Callers |-> 0]

\* No call with wide integers is in progress: the state these variables
\* keep while something else is examined.
WideParked ==
    /\ wbuild = "release"
    /\ wcfg = <<0, 0>>
    /\ wpc = "idle"
    /\ wmax = <<0, 0>>
    /\ watt = 0
    /\ wdelay = <<0, 0, 0, 0>>
    /\ wover = "none"

\* Frames Stream::next can yield: a text frame that deserializes, a text
\* frame that does not, a ping, a close frame, a read error, the end of the
\* stream (None), and any other message (binary, pong, raw frame).
FrameKinds == {"text_ok", "text_bad", "ping", "close", "error", "eof", "other"}

\* Payloads a ping frame can carry (Message::Ping(data)).
PingPayloads == {1, 2}

RECURSIVE Pow2(_)
Pow2(n) == IF n <= 0 THEN 1 ELSE 2 * Pow2(n - 1)

(***************************************************************************)
(* Pure pieces of the handlers.                                            *)
(***************************************************************************)
\* The match on the frame read: Ok(Message::Text(text)) is the only arm that
\* decodes and pushes; binary, pong and raw frames fall to `_ => {}`.
IsTextMutant(f) == f \in {"text_ok", "text_bad", "other"}
IsText(f) == f \in {"text_ok", "text_bad"}

\* serde_json::from_str on a text frame: Ok(data) becomes the event (the
\* to_* conversions cannot fail, they fall back to defaults), Err becomes a
\* DeserializationError envelope. raw_stream_handler forwards the text as is.
Decode(k, f, id) ==
    IF IsRaw(k) \/ f = "text_ok" THEN Env("event", id) ELSE Env("decode_err", id)

\* connect_with_retry: Err(e) if attempts >= max_retries => return Err(..)
GiveUpMutant(n) == n > max_retries
GiveUp(n) == n >= max_retries

\* connect_with_retry: Duration::from_secs(2u64.pow(attempts - 1))
RetryDelayMutant(n) == Pow2(n)
RetryDelay(n) == Pow2(n - 1)

\* the handlers' loop: sleep(Duration::from_secs(5))
ReconnectDelayMutant == IF pending.tag = "connect_err" THEN Pow2(max_retries - 1) ELSE 5
ReconnectDelay == 5

\* The Ping arm: Message::Pong(data) carries the ping's data.
PongPayloadMutant(d) == 0
PongPayload(d) == d

\* tx.send on a channel with a live receiver completes only when the channel
\* has room (mpsc::channel(100)); until then the sender is suspended.
HasRoomMutant(ch) == TRUE
HasRoom(ch) == Len(ch) < ChannelCapacity

\* tx.send appends at the tail of the queue.
PushMutant(ch, env) == <<env>> \o ch
Push(ch, env) == Append(ch, env)

\* Where the task goes after tx.send of the envelope of a text frame:
\* an event whose send failed makes the typed message loop return Ok(()) to
\* the handler's loop (which then sleeps), and makes raw_stream_handler
\* return; the result of sending a decode error is discarded (let _ =).
AfterDataPushMutant(k, tag, ok) ==
    IF tag = "event"
    THEN IF ok THEN "read" ELSE IF IsRaw(k) THEN "done" ELSE "backoff"
    ELSE "backoff"
AfterDataPushRawMutant(k, tag, ok) ==
    IF tag = "event"
    THEN IF ok THEN "read" ELSE "backoff"
    ELSE "read"
AfterDataPush(k, tag, ok) ==
    IF tag = "event"
    THEN IF ok THEN "read" ELSE IF IsRaw(k) THEN "done" ELSE "backoff"
    ELSE "read"

(***************************************************************************)
(* Initial state: the stream function has created the channel, spawned the *)
(* task and returned the receiver; the task is about to call               *)
(* connect_with_retry.                                                     *)
(***************************************************************************)
Init ==
    /\ kind \in Kinds
    /\ pc = "connect"
    /\ attempts = 0
    /\ timer = 0
    /\ slept = 0
    /\ transport = "none"
    /\ conns = 0
    /\ frames = 0
    /\ segStart = 0
    /\ pending = NoEnv
    /\ pingData = 0
    /\ pongOut = 0
    /\ lastFrame = "none"
    /\ chan = <<>>
    /\ rxAlive = TRUE
    /\ delivered = <<>>
    /\ failedPush = "none"
    /\ opening = "returned"
    /\ GateInit
    /\ RetryParked
    /\ CallsParked
    /\ WideParked

(***************************************************************************)
(* The supervisor task.                                                    *)
(***************************************************************************)
\* The handler's loop suspends in sleep(Duration::from_secs(5)); the
\* transport of the cycle, if any, has been dropped by then.
StartBackoff ==
    /\ pc' = "backoff"
    /\ timer' = ReconnectDelay
    /\ slept' = 0
    /\ transport' = "none"

\* One iteration of connect_with_retry's loop: attempts += 1, then
\* connect_async succeeds (the function returns the stream and the handler
\* enters its message loop), or fails for the last time (the function
\* returns Err and the handler pushes it), or fails and the function sleeps.
ConnectAttempt ==
    /\ pc = "connect"
    /\ \E ok \in BOOLEAN :
        IF ok
        THEN /\ conns < MaxConns
             /\ conns' = conns + 1
             /\ transport' = "open"
             /\ pc' = "read"
             /\ segStart' = frames
             /\ attempts' = 0
             /\ UNCHANGED <<timer, slept, pending>>
        ELSE IF GiveUp(attempts + 1)
        THEN /\ pending' = Env("connect_err", 0)
             /\ pc' = "send_err"
             /\ attempts' = 0
             /\ UNCHANGED <<timer, slept, transport, conns, segStart>>
        ELSE /\ attempts' = attempts + 1
             /\ timer' = RetryDelay(attempts + 1)
             /\ slept' = 0
             /\ pc' = "retry_sleep"
             /\ UNCHANGED <<transport, conns, segStart, pending>>
    /\ UNCHANGED <<kind, frames, chan, rxAlive, delivered, failedPush>>
    /\ UNCHANGED <<pingData, pongOut, lastFrame, opening>>
    /\ UNCHANGED <<gateVars, reqVars, callVars, wideVars>>

\* One second of a sleep in progress elapses.
Tick ==
    /\ timer > 0
    /\ timer' = timer - 1
    /\ slept' = slept + 1
    /\ UNCHANGED <<kind, pc, attempts, transport, conns, frames, segStart,
                   pending, chan, rxAlive, delivered, failedPush>>
    /\ UNCHANGED <<pingData, pongOut, lastFrame, opening>>
    /\ UNCHANGED <<gateVars, reqVars, callVars, wideVars>>

\* connect_with_retry's sleep(delay) is over: next iteration of its loop.
RetryWake ==
    /\ pc = "retry_sleep"
    /\ timer = 0
    /\ pc' = "connect"
    /\ slept' = 0
    /\ UNCHANGED <<kind, attempts, timer, transport, conns, frames, segStart,
                   pending, chan, rxAlive, delivered, failedPush>>
    /\ UNCHANGED <<pingData, pongOut, lastFrame, opening>>
    /\ UNCHANGED <<gateVars, reqVars, callVars, wideVars>>

\* The handler's 5 second sleep is over: next iteration of the handler's
\* loop, which calls connect_with_retry (let mut attempts = 0).
BackoffWake ==
    /\ pc = "backoff"
    /\ timer = 0
    /\ pc' = "connect"
    /\ attempts' = 0
    /\ slept' = 0
    /\ UNCHANGED <<kind, timer, transport, conns, frames, segStart, pending,
                   chan, rxAlive, delivered, failedPush>>
    /\ UNCHANGED <<pingData, pongOut, lastFrame, opening>>
    /\ UNCHANGED <<gateVars, reqVars, callVars, wideVars>>

\* ws_stream.next().await yields a frame and the match on it runs up to the
\* next suspension point.
ReadFrame ==
    /\ pc = "read"
    /\ \E f \in FrameKinds :
        /\ lastFrame' = f
        /\ CASE IsText(f) ->
                /\ frames < MaxFrames
                /\ frames' = frames + 1
                /\ pending' = Decode(kind, f, frames + 1)
                /\ pc' = "send"
                /\ UNCHANGED <<timer, slept, transport, pingData>>
          [] f = "ping" ->
                /\ pc' = "pong"
                /\ pingData' \in PingPayloads
                /\ UNCHANGED <<frames, pending, timer, slept, transport>>
          [] f = "close" ->
                \* typed: return Err(WebSocketClosed), pushed by the handler;
                \* raw: pushed in place, then break
                /\ pending' = Env("closed", 0)
                /\ pc' = "send_err"
                /\ transport' = IF IsRaw(kind) THEN transport ELSE "none"
                /\ UNCHANGED <<frames, timer, slept, pingData>>
          [] f = "error" ->
                /\ pending' = Env("ws_err", 0)
                /\ pc' = "send_err"
                /\ transport' = IF IsRaw(kind) THEN transport ELSE "none"
                /\ UNCHANGED <<frames, timer, slept, pingData>>
          [] f = "eof" ->
                \* typed: the while loop ends and Err(WebSocketClosed) is
                \* returned; raw: the while loop ends and nothing is pushed
                IF IsRaw(kind)
                THEN /\ StartBackoff
                     /\ UNCHANGED <<frames, pending, pingData>>
                ELSE /\ pending' = Env("closed", 0)
                     /\ pc' = "send_err"
                     /\ transport' = "none"
                     /\ UNCHANGED <<frames, timer, slept, pingData>>
          [] f = "other" ->
                /\ UNCHANGED <<pc, frames, pending, timer, slept, transport,
                               pingData>>
    /\ pongOut' = 0
    /\ UNCHANGED <<kind, attempts, conns, segStart, chan, rxAlive, delivered,
                   failedPush, opening>>
    /\ UNCHANGED <<gateVars, reqVars, callVars, wideVars>>

\* ws_stream.send(Message::Pong(data)).await and the `?` on its result: on
\* failure the typed message loop returns the error to its handler, which
\* pushes it; raw_stream_handler itself returns it to the spawned closure.
SendPong ==
    /\ pc = "pong"
    /\ \E ok \in BOOLEAN :
        IF ok
        THEN /\ pc' = "read"
             /\ pongOut' = PongPayload(pingData)
             /\ UNCHANGED <<pending, transport>>
        ELSE /\ pending' = Env("ws_err", 0)
             /\ pc' = IF IsRaw(kind) THEN "final_err" ELSE "send_err"
             /\ transport' = "none"
             /\ pongOut' = 0
    /\ pingData' = 0
    /\ UNCHANGED <<kind, attempts, timer, slept, conns, frames, segStart,
                   lastFrame, chan, rxAlive, delivered, failedPush, opening>>
    /\ UNCHANGED <<gateVars, reqVars, callVars, wideVars>>

\* tx.send(..).await of the envelope of a text frame completes: Ok when the
\* receiver is alive and the channel has room, Err when the receiver is gone.
PushData ==
    /\ pc = "send"
    /\ ~rxAlive \/ HasRoom(chan)
    /\ chan' = IF rxAlive THEN Push(chan, pending) ELSE chan
    /\ failedPush' = IF rxAlive \/ failedPush # "none" THEN failedPush
                      ELSE pending.tag
    /\ pending' = NoEnv
    /\ LET next == AfterDataPush(kind, pending.tag, rxAlive) IN
        IF next = "backoff"
        THEN StartBackoff
        ELSE /\ pc' = next
             /\ transport' = IF next = "done" THEN "none" ELSE transport
             /\ UNCHANGED <<timer, slept>>
    /\ UNCHANGED <<kind, attempts, conns, frames, segStart, rxAlive, delivered>>
    /\ UNCHANGED <<pingData, pongOut, lastFrame, opening>>
    /\ UNCHANGED <<gateVars, reqVars, callVars, wideVars>>

\* let _ = tx.send(Err(e)).await of the error that ended the cycle; whatever
\* the result, the handler's loop goes on to its sleep.
PushCycleError ==
    /\ pc = "send_err"
    /\ ~rxAlive \/ HasRoom(chan)
    /\ chan' = IF rxAlive THEN Push(chan, pending) ELSE chan
    /\ failedPush' = IF rxAlive \/ failedPush # "none" THEN failedPush
                      ELSE "conn_err"
    /\ StartBackoff
    /\ pending' = NoEnv
    /\ UNCHANGED <<kind, attempts, conns, frames, segStart, rxAlive, delivered>>
    /\ UNCHANGED <<pingData, pongOut, lastFrame, opening>>
    /\ UNCHANGED <<gateVars, reqVars, callVars, wideVars>>

\* The spawned closure of combined_stream: the handler returned Err(e),
\* let _ = tx.send(Err(e)).await, and the task ends.
PushFinalError ==
    /\ pc = "final_err"
    /\ ~rxAlive \/ HasRoom(chan)
    /\ chan' = IF rxAlive THEN Push(chan, pending) ELSE chan
    /\ failedPush' = IF rxAlive \/ failedPush # "none" THEN failedPush
                      ELSE "conn_err"
    /\ pending' = NoEnv
    /\ pc' = "done"
    /\ UNCHANGED <<kind, attempts, timer, slept, transport, conns, frames,
                   segStart, rxAlive, delivered>>
    /\ UNCHANGED <<pingData, pongOut, lastFrame, opening>>
    /\ UNCHANGED <<gateVars, reqVars, callVars, wideVars>>

(***************************************************************************)
(* The consumer.                                                           *)
(***************************************************************************)
\* rx.recv().await takes the oldest envelope.
Recv ==
    /\ opening = "returned"
    /\ rxAlive
    /\ chan # <<>>
    /\ chan' = Tail(chan)
    /\ delivered' = IF Head(chan).id > 0
                    THEN Append(delivered, Head(chan).id)
                    ELSE delivered
    /\ UNCHANGED <<kind, pc, attempts, timer, slept, transport, conns,
                   frames, segStart, pending, rxAlive, failedPush>>
    /\ UNCHANGED <<pingData, pongOut, lastFrame, opening>>
    /\ UNCHANGED <<gateVars, reqVars, callVars, wideVars>>

\* The consumer drops the receiver: the channel closes and the envelopes
\* still queued are discarded.
DropReceiver ==
    /\ opening = "returned"
    /\ rxAlive
    /\ rxAlive' = FALSE
    /\ chan' = <<>>
    /\ UNCHANGED <<kind, pc, attempts, timer, slept, transport, conns,
                   frames, segStart, pending, delivered, failedPush>>
    /\ UNCHANGED <<pingData, pongOut, lastFrame, opening>>
    /\ UNCHANGED <<gateVars, reqVars, callVars, wideVars>>

Next ==
    \/ ConnectAttempt
    \/ Tick
    \/ RetryWake
    \/ BackoffWake
    \/ ReadFrame
    \/ SendPong
    \/ PushData
    \/ PushCycleError
    \/ PushFinalError
    \/ Recv
    \/ DropReceiver

vars == <<wsVars, gateVars, reqVars, callVars, wideVars>>

Spec == Init /\ [][Next]_vars

TypeOK ==
    /\ kind \in Kinds
    /\ pc \in {"unspawned", "connect", "retry_sleep", "read", "pong", "send",
               "send_err", "final_err", "backoff", "done"}
    /\ attempts \in 0..max_retries
    /\ timer \in 0..8 /\ slept \in 0..8
    /\ transport \in {"none", "open"}
    /\ conns \in 0..MaxConns
    /\ frames \in 0..MaxFrames
    /\ Len(chan) <= ChannelCapacity
    /\ rxAlive \in BOOLEAN
    /\ pingData \in {0} \cup PingPayloads
    /\ pongOut \in {0} \cup PingPayloads
    /\ lastFrame \in {"none"} \cup FrameKinds
    /\ opening \in {"called", "spawned", "returned"}

(***************************************************************************)
(* Helpers of the properties.                                              *)
(***************************************************************************)
\* Ids of the text frames behind the envelopes of a queue, in queue order.
RECURSIVE FrameIds(_)
FrameIds(q) ==
    IF q = <<>> THEN <<>>
    ELSE IF Head(q).id > 0 THEN <<Head(q).id>> \o FrameIds(Tail(q))
    ELSE FrameIds(Tail(q))

\* Frame ids of everything pushed or being pushed, oldest first: what the
\* consumer has received, then the queue, then the envelope in the push.
Outstanding == delivered \o FrameIds(chan) \o FrameIds(<<pending>>)

StrictlyIncreasing(q) == \A i \in 1..(Len(q) - 1) : q[i] < q[i + 1]

\* The supervisor is suspended in a tx.send.
InPush == pc \in {"send", "send_err", "final_err"}

(***************************************************************************)
(* C1: once a push has failed because the receiver was dropped, the        *)
(* supervisor makes no further connect attempt. Stated as the claim has    *)
(* it; the typed handlers' loop falsifies it (it sleeps and reconnects).   *)
(***************************************************************************)
C1_NoConnectAfterFailedPush ==
    [][failedPush # "none" => ~(pc = "connect" /\ pc' # "connect")]_vars

(***************************************************************************)
(* C2: after the push of a decoded event has failed (the receiver was      *)
(* dropped while well-formed frames keep coming), no frame is read from    *)
(* any transport any more. Stated as the claim has it; falsified by the    *)
(* typed handlers, which reconnect and read again.                         *)
(***************************************************************************)
C2_NoReadAfterCancel ==
    [][failedPush = "event" => ~(pc = "read" /\ pc' # "read")]_vars

(***************************************************************************)
(* C3: whatever envelope is being sent, a send attempted after the         *)
(* receiver was dropped makes the supervisor stop. Stated as the claim has *)
(* it; falsified by every push whose result is discarded with `let _ =`    *)
(* and by the typed handlers' loop.                                        *)
(***************************************************************************)
C3_StopOnNextSend ==
    [][(~rxAlive /\ InPush /\ pc' # pc) => pc' = "done"]_vars

(***************************************************************************)
(* C4: while the consumer holds its receiver the supervisor never exits.   *)
(* Stated as the claim has it; falsified by raw_stream_handler, which      *)
(* returns when a pong cannot be sent.                                     *)
(***************************************************************************)
C4_NeverExitsWhileConsumed ==
    rxAlive => pc \notin {"final_err", "done"}

(***************************************************************************)
(* C5: the envelopes of text frames reach the consumer in the order the    *)
(* frames were read, across reconnects, each frame at most once: the frame *)
(* ids of what was received, then queued, then being pushed, are strictly  *)
(* increasing and are ids of frames that were read.                        *)
(***************************************************************************)
C5_ArrivalOrder ==
    /\ StrictlyIncreasing(Outstanding)
    /\ \A i \in 1..Len(Outstanding) : Outstanding[i] \in 1..frames

\* Frames 1 and 2 were read on the first transport, frame 3 on the second,
\* and the consumer has received all three in that order.
C5_Witness ==
    /\ conns = 2
    /\ segStart = 2
    /\ delivered = <<1, 2, 3>>

(***************************************************************************)
(* C6: the channel never holds more than its capacity; while a push is     *)
(* suspended on the full channel the supervisor does nothing else (it      *)
(* reads no frame); while the consumer is alive every text frame read so   *)
(* far is behind exactly one envelope received, queued or being pushed.    *)
(***************************************************************************)
C6_Backpressure ==
    /\ [](Len(chan) <= ChannelCapacity)
    /\ [](rxAlive => Outstanding = [i \in 1..frames |-> i])
    /\ [][(rxAlive /\ InPush /\ Len(chan) = ChannelCapacity)
            => (pc' = pc /\ frames' = frames /\ pending' = pending
                /\ Len(chan') <= Len(chan))]_vars

\* The push of the envelope of frame 3 is suspended on the full channel.
C6_Witness ==
    /\ rxAlive
    /\ pc = "send"
    /\ Len(chan) = ChannelCapacity
    /\ pending.id = ChannelCapacity + 1

(***************************************************************************)
(* C7: a text frame that fails to deserialize gives one decode-error       *)
(* envelope (queued when the consumer is alive) and the supervisor goes    *)
(* back to reading the same transport: no close, no backoff, no connect.   *)
(***************************************************************************)
C7_DecodeErrorNotFatal ==
    /\ [](pending.tag = "decode_err" => (pc = "send" /\ transport = "open"))
    /\ [][(pc = "send" /\ pending.tag = "decode_err" /\ pc' # pc)
            => /\ pc' = "read"
               /\ transport' = "open"
               /\ conns' = conns
               /\ timer' = 0
               /\ chan' = IF rxAlive THEN Append(chan, pending) ELSE chan]_vars

\* On one transport, a decode error is queued and right behind it the event
\* of the next, well-formed frame.
C7_Witness ==
    /\ conns = 1
    /\ Len(chan) = 2
    /\ chan[1].tag = "decode_err"
    /\ chan[2] = Env("event", chan[1].id + 1)
    /\ pc = "read"

(***************************************************************************)
(* C8: connect_with_retry is entered again only from the handler's sleep,  *)
(* and that sleep has lasted exactly 5 seconds, whatever ended the cycle.  *)
(***************************************************************************)
C8_FixedReconnectDelay ==
    /\ [](pc = "backoff" => timer + slept = 5)
    /\ [][(pc = "backoff" /\ pc' = "connect") => slept = 5]_vars
    /\ [][(pc' = "connect" /\ pc # "connect")
            => pc \in {"backoff", "retry_sleep"}]_vars

\* The 5 seconds have elapsed after a cycle in which all connects failed,
\* following an earlier cycle that had a transport.
C8_Witness ==
    /\ pc = "backoff"
    /\ slept = 5
    /\ timer = 0
    /\ conns = 1
    /\ Len(chan) = 2
    /\ chan[1].tag = "closed"
    /\ chan[2].tag = "connect_err"

(***************************************************************************)
(* C9: a connect cycle makes at most 5 attempts; a successful attempt      *)
(* hands the transport to the message loop at once; the 5th failure makes  *)
(* the supervisor push one connect-error envelope and then sleep in        *)
(* Backoff (it neither connects again at once nor terminates).             *)
(***************************************************************************)
C9_BoundedConnectCycle ==
    /\ [](attempts <= 4)
    /\ [](pending.tag = "connect_err" => (pc = "send_err" /\ transport = "none"))
    /\ [][(pc = "connect" /\ conns' = conns + 1)
            => (pc' = "read" /\ transport' = "open")]_vars
    /\ [][(pc = "connect" /\ pc' # pc /\ attempts = 4 /\ conns' = conns)
            => (pc' = "send_err" /\ pending' = Env("connect_err", 0))]_vars
    /\ [][(pc = "connect" /\ pc' # pc /\ attempts < 4 /\ conns' = conns)
            => pc' = "retry_sleep"]_vars
    /\ [][(pc = "send_err" /\ pending.tag = "connect_err" /\ pc' # pc)
            => /\ pc' = "backoff"
               /\ chan' = IF rxAlive THEN Append(chan, pending) ELSE chan]_vars

\* All 5 attempts failed, the error envelope is queued and the handler
\* sleeps.
C9_Witness ==
    /\ pc = "backoff"
    /\ timer = 5
    /\ conns = 0
    /\ chan = <<Env("connect_err", 0)>>

(***************************************************************************)
(* C10: the wait after failed attempt k = 1..4 of a cycle is 1, 2, 4, 8    *)
(* seconds; the 5th failure returns without a wait; every cycle starts     *)
(* counting again.                                                         *)
(***************************************************************************)
C10_ExponentialConnectBackoff ==
    /\ [](pc = "retry_sleep"
            => (attempts \in 1..4 /\ timer + slept = <<1, 2, 4, 8>>[attempts]))
    /\ [][(pc = "retry_sleep" /\ pc' = "connect")
            => slept = <<1, 2, 4, 8>>[attempts]]_vars
    /\ [][(pc = "connect" /\ attempts = 4 /\ pc' # pc)
            => pc' \in {"read", "send_err"}]_vars
    /\ [][(pc' = "connect" /\ pc # "connect" /\ pc # "retry_sleep")
            => attempts' = 0]_vars

\* Second cycle (the first one gave up): the wait after its 4th failed
\* attempt has lasted 8 seconds.
C10_Witness ==
    /\ pc = "retry_sleep"
    /\ attempts = 4
    /\ slept = 8
    /\ timer = 0
    /\ chan = <<Env("connect_err", 0)>>

(***************************************************************************)
(* C11, as claimed: every ping read in Active is answered with one pong    *)
(* carrying its payload, puts nothing on the channel and leaves the        *)
(* supervisor in Active. Falsified when the pong cannot be sent.           *)
(***************************************************************************)
C11_EveryPingAnswered ==
    [][(pc = "pong" /\ pc' # pc)
        => /\ pongOut' = pingData
           /\ pc' = "read"
           /\ pending' = NoEnv
           /\ transport' = transport]_vars

(***************************************************************************)
(* C11, amended: a ping read in Active leads to exactly one send of a pong *)
(* before any further frame is read; when that send succeeds the pong      *)
(* carries the ping's payload, nothing is put on the channel and neither   *)
(* the supervisor's position, transport nor counters change; when it fails *)
(* no pong goes out and Active ends with a WebSocketError.                 *)
(***************************************************************************)
C11_PingPong ==
    /\ [](pc = "pong" <=> pingData # 0)
    /\ [](pc = "pong" => (transport = "open" /\ pending = NoEnv /\ pongOut = 0))
    /\ [][(pc = "pong" /\ pc' # pc)
            => \/ /\ pongOut' = pingData
                  /\ pc' = "read"
                  /\ UNCHANGED <<transport, pending, chan, attempts, frames,
                                 conns, segStart, timer, slept>>
               \/ /\ pongOut' = 0
                  /\ pc' \in {"send_err", "final_err"}
                  /\ pending' = Env("ws_err", 0)
                  /\ chan' = chan]_vars
    /\ [][pongOut' \notin {0, pongOut} => pc = "pong"]_vars
    /\ [][pc = "pong" => frames' = frames]_vars

\* The pong answering a ping with payload 2 has been sent and the task is
\* back at reading, on a transport that has already delivered a frame.
C11_Witness ==
    /\ pc = "read"
    /\ pongOut = 2
    /\ frames = 1
    /\ chan = <<Env("event", 1)>>

(***************************************************************************)
(* The stream states of the design, as positions of the task: Connecting   *)
(* is connect_with_retry, Active the message loop, Backoff the push of the *)
(* error that ended the cycle and the 5 second sleep, Closed the end of    *)
(* the task.                                                               *)
(***************************************************************************)
StreamState ==
    CASE pc \in {"connect", "retry_sleep"} -> "Connecting"
      [] pc \in {"read", "pong", "send"} -> "Active"
      [] pc \in {"send_err", "backoff"} -> "Backoff"
      [] pc \in {"final_err", "done"} -> "Closed"

(***************************************************************************)
(* C12, as claimed: the only transitions are Connecting->Active,           *)
(* Connecting->Backoff, Active->Backoff (the transport ended: seen while   *)
(* reading or answering a ping), Backoff->Connecting and Active->Closed (a *)
(* push failed); nothing leaves Closed. Falsified by the typed handlers,   *)
(* which go to Backoff on a failed push, and by raw_stream_handler, which  *)
(* closes on a failed pong.                                                *)
(***************************************************************************)
C12_Transitions ==
    [][StreamState' # StreamState
        => \/ StreamState = "Connecting" /\ StreamState' = "Active"
           \/ StreamState = "Connecting" /\ StreamState' = "Backoff"
           \/ /\ StreamState = "Active" /\ StreamState' = "Backoff"
              /\ pc \in {"read", "pong"}
           \/ StreamState = "Backoff" /\ StreamState' = "Connecting"
           \/ /\ StreamState = "Active" /\ StreamState' = "Closed"
              /\ pc = "send" /\ ~rxAlive]_vars

(***************************************************************************)
(* The admission gate: RateLimiter of src/src/rate_limiter.rs, built by    *)
(* BinanceClient::new or directly, and shared by its callers. The limiter  *)
(* is governor's direct, not keyed rate limiter: one atomic value, the     *)
(* theoretical arrival time (GCRA), read and advanced by check and         *)
(* until_ready in a compare-and-swap. A tick is the Period-th part of the  *)
(* quota's replenish interval (1 s / n for per_second(n), 60 s / n for     *)
(* per-minute quotas); arguments are taken that divide the unit of time.   *)
(***************************************************************************)
Max(a, b) == IF a >= b THEN a ELSE b
Min(a, b) == IF a <= b THEN a ELSE b

\* Arguments the constructors are called with.
RpmChoices == {0, 60, 120}
RpsChoices == 0..MaxRate
TimeoutChoices == {0, 10}

\* BinanceConfig::validate: Ok(()) unless timeout_seconds or
\* requests_per_minute is 0.
ValidateMutant(n, timeout) == timeout # 0
Validate(n, timeout) == timeout # 0 /\ n # 0

\* RateLimiter::new: let burst = ((requests_per_minute + 59) / 60).max(1).
BurstOf(rpm) == Max((rpm + 59) \div 60, 1)

\* NonZeroU32::new(n).expect(..) panics for 0; otherwise the limiter is built
\* with Quota::per_second(n) (burst n) or Quota::per_minute(n).allow_burst.
NewLimiter(path, n, timeout) ==
    IF n = 0
    THEN [gate |-> "panicked",
          quota |-> [path |-> path, n |-> n, timeout |-> timeout, burst |-> 0]]
    ELSE [gate |-> "ready",
          quota |-> [path |-> path, n |-> n, timeout |-> timeout,
                     burst |-> IF path = "per_second" THEN n ELSE BurstOf(n)]]

\* BinanceClient::new: config.validate()?, then the HTTP client is built
\* (its error is returned with `?`), then RateLimiter::new.
ClientNew(n, timeout, httpOk) ==
    IF ~Validate(n, timeout)
    THEN [gate |-> "config_error",
          quota |-> [path |-> "client", n |-> n, timeout |-> timeout,
                     burst |-> 0]]
    ELSE IF ~httpOk
    THEN [gate |-> "http_error",
          quota |-> [path |-> "client", n |-> n, timeout |-> timeout,
                     burst |-> 0]]
    ELSE NewLimiter("client", n, timeout)

\* GCRA: tau, the burst tolerance, is the replenish interval times the burst.
TauMutant(q) == Period * (q.burst + 2)
Tau(q) == Period * q.burst

\* Distance of the theoretical arrival time ahead of the clock; a limiter
\* never checked starts at the time of the check plus one interval.
Lag(x) == IF x.some THEN x.lag ELSE Period

\* The cell conforms when the clock has reached tat - tau.
ConformsMutant(q, x) == Lag(x) < Tau(q)
Conforms(q, x) == Lag(x) <= Tau(q)

\* On admission the state becomes max(tat, now) + one interval.
NextTatMutant(x) == [some |-> TRUE, lag |-> Period]
NextTat(x) == [some |-> TRUE, lag |-> Lag(x) + Period]

\* NotUntil::wait_time_from(now): the time until tat - tau.
WaitTimeMutant(q, x) == Lag(x) - Tau(q) + 1
WaitTime(q, x) == Lag(x) - Tau(q)

\* Length in ticks of the observed window: less than burst intervals have
\* passed between its first and last tick; a minute is n intervals of a
\* quota of n per minute.
WindowTicks == IF winKind = "burst" THEN quota.burst * Period
               ELSE quota.n * Period

\* A permit is granted: bookkeeping of the observers.
Grant ==
    /\ admitted' = IF clock < MaxTime THEN admitted + 1 ELSE admitted
    /\ lastAdmit' = IF clock < MaxTime THEN clock ELSE lastAdmit
    /\ winCount' = IF winKind \in {"burst", "minute"} THEN winCount + 1
                   ELSE winCount

\* The construction: BinanceClient::new (also reached from
\* BinanceClientBuilder::build), RateLimiter::new or RateLimiter::per_second.
Build ==
    /\ gate = "unbuilt"
    /\ \E path \in {"client", "new", "per_second"}, timeout \in TimeoutChoices,
          httpOk \in BOOLEAN :
        \E n \in IF path = "per_second" THEN RpsChoices ELSE RpmChoices :
            LET made == IF path = "client" THEN ClientNew(n, timeout, httpOk)
                        ELSE NewLimiter(path, n, 0)
            IN  /\ gate' = made.gate
                /\ quota' = made.quota
    /\ UNCHANGED <<tat, clock, admitted, lastAdmit, cpc, wait, tryRes,
                   winKind, winAge, winCount>>
    /\ UNCHANGED <<wsVars, reqVars, callVars, wideVars>>

\* A task calls limiter.acquire().
CallAcquire(c) ==
    /\ gate = "ready"
    /\ cpc[c] = "idle"
    /\ cpc' = [cpc EXCEPT ![c] = "check"]
    /\ UNCHANGED <<gate, quota, tat, clock, admitted, lastAdmit, wait, tryRes,
                   winKind, winAge, winCount>>
    /\ UNCHANGED <<wsVars, reqVars, callVars, wideVars>>

\* One round of until_ready's loop: the atomic check; on refusal the caller
\* sleeps for the refusal's wait time and will check again.
Check(c) ==
    /\ cpc[c] = "check"
    /\ IF Conforms(quota, tat)
       THEN /\ tat' = NextTat(tat)
            /\ cpc' = [cpc EXCEPT ![c] = "idle"]
            /\ Grant
            /\ UNCHANGED wait
       ELSE /\ cpc' = [cpc EXCEPT ![c] = "sleep"]
            /\ wait' = [wait EXCEPT ![c] = WaitTime(quota, tat)]
            /\ UNCHANGED <<tat, admitted, lastAdmit, winCount>>
    /\ UNCHANGED <<gate, quota, clock, tryRes, winKind, winAge>>
    /\ UNCHANGED <<wsVars, reqVars, callVars, wideVars>>

\* The sleep of a refused caller ends.
Wake(c) ==
    /\ cpc[c] = "sleep"
    /\ wait[c] = 0
    /\ cpc' = [cpc EXCEPT ![c] = "check"]
    /\ UNCHANGED <<gate, quota, tat, clock, admitted, lastAdmit, wait, tryRes,
                   winKind, winAge, winCount>>
    /\ UNCHANGED <<wsVars, reqVars, callVars, wideVars>>

\* A try_acquire that charges the gate for a refusal too.
TryAcquireMutant ==
    /\ gate = "ready"
    /\ tryRes = "idle"
    /\ tat' = NextTat(tat)
    /\ IF Conforms(quota, tat)
       THEN tryRes' = "some" /\ Grant
       ELSE tryRes' = "none" /\ UNCHANGED <<admitted, lastAdmit, winCount>>
    /\ UNCHANGED <<gate, quota, clock, cpc, wait, winKind, winAge>>
    /\ UNCHANGED <<wsVars, reqVars, callVars, wideVars>>

\* try_acquire: self.governor.check().is_ok().then_some(permit).
TryAcquire ==
    /\ gate = "ready"
    /\ tryRes = "idle"
    /\ IF Conforms(quota, tat)
       THEN /\ tat' = NextTat(tat)
            /\ tryRes' = "some"
            /\ Grant
       ELSE /\ tryRes' = "none"
            /\ UNCHANGED <<tat, admitted, lastAdmit, winCount>>
    /\ UNCHANGED <<gate, quota, clock, cpc, wait, winKind, winAge>>
    /\ UNCHANGED <<wsVars, reqVars, callVars, wideVars>>

\* The caller of try_acquire takes the Option and goes on.
TryReturn ==
    /\ tryRes # "idle"
    /\ tryRes' = "idle"
    /\ UNCHANGED <<gate, quota, tat, clock, admitted, lastAdmit, cpc, wait,
                   winKind, winAge, winCount>>
    /\ UNCHANGED <<wsVars, reqVars, callVars, wideVars>>

\* One tick of time passes; the observers of the early permits stop at
\* MaxTime.
PassTime ==
    /\ gate = "ready"
    /\ clock' = Min(clock + 1, MaxTime)
    /\ tat' = IF tat.some THEN [tat EXCEPT !.lag = Max(tat.lag - 1, 0)] ELSE tat
    /\ wait' = [c \in Callers |-> Max(wait[c] - 1, 0)]
    /\ IF winKind \in {"burst", "minute"}
       THEN IF winAge + 1 >= WindowTicks
            THEN winKind' = "closed" /\ winAge' = 0 /\ winCount' = 0
            ELSE winAge' = winAge + 1 /\ UNCHANGED <<winKind, winCount>>
       ELSE UNCHANGED <<winKind, winAge, winCount>>
    /\ IF clock + 1 >= MaxTime
       THEN admitted' = 0 /\ lastAdmit' = 0
       ELSE UNCHANGED <<admitted, lastAdmit>>
    /\ UNCHANGED <<gate, quota, cpc, tryRes>>

ClockTick ==
    /\ PassTime
    /\ UNCHANGED <<wsVars, reqVars, callVars, wideVars>>

\* An observer starts to count the permits of the window that begins now:
\* tests take let start = Instant::now() and count the acquires that follow.
OpenBurstWindow ==
    /\ gate = "ready"
    /\ winKind = "none"
    /\ winKind' = "burst"
    /\ UNCHANGED <<gate, quota, tat, clock, admitted, lastAdmit, cpc, wait,
                   tryRes, winAge, winCount>>
    /\ UNCHANGED <<wsVars, reqVars, callVars, wideVars>>

OpenMinuteWindow ==
    /\ gate = "ready"
    /\ quota.path \in {"client", "new"}
    /\ winKind = "none"
    /\ winKind' = "minute"
    /\ UNCHANGED <<gate, quota, tat, clock, admitted, lastAdmit, cpc, wait,
                   tryRes, winAge, winCount>>
    /\ UNCHANGED <<wsVars, reqVars, callVars, wideVars>>

InitGate == WsParked /\ GateInit /\ RetryParked /\ CallsParked /\ WideParked

NextGate ==
    \/ Build
    \/ \E c \in Callers : CallAcquire(c)
    \/ \E c \in Callers : Check(c)
    \/ \E c \in Callers : Wake(c)
    \/ TryAcquire
    \/ TryReturn
    \/ ClockTick
    \/ OpenBurstWindow

SpecGate == InitGate /\ [][NextGate]_vars

GateTypeOK ==
    /\ gate \in {"unbuilt", "ready", "config_error", "http_error", "panicked"}
    /\ tat.lag \in 0..(Period * (MaxRate + 2))
    /\ clock \in 0..MaxTime
    /\ admitted \in 0..(MaxRate + MaxTime + 1)
    /\ \A c \in Callers : cpc[c] \in {"idle", "check", "sleep"}
    /\ \A c \in Callers : wait[c] \in 0..Period
    /\ tryRes \in {"idle", "some", "none"}
    /\ winKind \in {"none", "burst", "minute", "closed"}

(***************************************************************************)
(* Helpers of the gate's properties.                                       *)
(***************************************************************************)
\* This step is a try_acquire call.
TryStep == tryRes = "idle" /\ tryRes' # "idle"

\* Every permit granted so far was granted at the present instant, the
\* first use of the gate (the window was opened before any of them).
AllNow ==
    /\ clock < MaxTime
    /\ winKind = "burst"
    /\ winAge = 0
    /\ winCount = admitted

(***************************************************************************)
(* C13: on a fresh gate built with per_second(n), the try_acquire calls    *)
(* made with no time elapsing succeed while fewer than n permits have been *)
(* granted and fail once n have been; when the n permits were taken at the *)
(* construction, a try_acquire succeeds one replenish interval (1/n s)     *)
(* later.                                                                  *)
(***************************************************************************)
C13_FreshBurst ==
    [][(quota.path = "per_second" /\ TryStep)
        => /\ ((clock = 0 \/ AllNow) /\ admitted < quota.n) => tryRes' = "some"
           /\ ((clock = 0 \/ AllNow) /\ admitted = quota.n) => tryRes' = "none"
           /\ (clock = Period /\ admitted = quota.n /\ lastAdmit = 0)
                => tryRes' = "some"]_vars

\* per_second(2): two permits at the construction, and the third one
\* interval later, just granted to a try_acquire.
C13_Witness ==
    /\ quota.path = "per_second"
    /\ quota.n = 2
    /\ clock = Period
    /\ admitted = 3
    /\ lastAdmit = Period
    /\ tryRes = "some"

C16_NoDoubleAdmission ==
    (gate = "ready" /\ clock < MaxTime)
        => admitted * Period <= quota.burst * Period + clock

\* Two callers compete: the budget accrued so far is used up to the last
\* permit, one caller has just been refused and sleeps, the other is about
\* to check.
C16_Witness ==
    /\ gate = "ready"
    /\ clock = 2 * Period
    /\ admitted = quota.burst + 2
    /\ cpc[1] = "sleep" /\ wait[1] > 0
    /\ cpc[2] = "check"

(***************************************************************************)
(* C18: no gate with rate zero comes to be used. BinanceClient::new given  *)
(* requests_per_minute = 0 or timeout_seconds = 0 returns the ConfigError  *)
(* without reaching RateLimiter::new; RateLimiter::new(0) and              *)
(* per_second(0) panic; a limiter that exists has a positive rate and      *)
(* burst, only such a limiter is ever called, and try_acquire returns None *)
(* only because the budget is used up.                                     *)
(***************************************************************************)
C18_ZeroRateNeverUsed ==
    /\ [](gate # "unbuilt" /\ quota.path = "client"
            /\ (quota.n = 0 \/ quota.timeout = 0) => gate = "config_error")
    /\ [](gate # "unbuilt" /\ quota.path \in {"new", "per_second"}
            /\ quota.n = 0 => gate = "panicked")
    /\ [](gate = "ready" => quota.n > 0 /\ quota.burst > 0)
    /\ [](gate # "ready"
            => /\ \A c \in Callers : cpc[c] = "idle"
               /\ tryRes = "idle"
               /\ ~tat.some)
    /\ [][tryRes' = "none" /\ tryRes # "none"
            => gate = "ready" /\ quota.n > 0 /\ ~Conforms(quota, tat)]_vars

\* BinanceClient::new was given a configuration with requests_per_minute = 0
\* and a valid timeout.
C18_Witness ==
    /\ gate = "config_error"
    /\ quota.path = "client"
    /\ quota.n = 0
    /\ quota.timeout = 10

(***************************************************************************)
(* The gate observed over one minute. The users are one caller of          *)
(* try_acquire and one task calling acquire; the observer counts the       *)
(* permits of a 60 second window that starts at any time.                  *)
(***************************************************************************)
NextMinute ==
    \/ Build
    \/ CallAcquire(1)
    \/ Check(1)
    \/ Wake(1)
    \/ TryAcquire
    \/ TryReturn
    \/ ClockTick
    \/ OpenMinuteWindow

SpecMinute == InitGate /\ [][NextMinute]_vars

(***************************************************************************)
(* C15, as claimed: a gate built by RateLimiter::new(requests_per_minute), *)
(* directly or by BinanceClient::new, grants at most requests_per_minute   *)
(* permits in any window of 60 seconds.                                    *)
(***************************************************************************)
C15_AtMostRpmPerMinute ==
    winKind = "minute" => winCount <= quota.n

(***************************************************************************)
(* The gate under the scheduling the runtime gives, at its best: time goes *)
(* on, a task whose sleep has ended is woken before more time passes, and  *)
(* a task that is ready to run its check runs it before more time passes.  *)
(* Whether a task calls acquire or try_acquire again is up to the task.    *)
(***************************************************************************)
\* A caller the runtime can run now: woken or due to be woken.
Runnable(c) == cpc[c] = "check" \/ (cpc[c] = "sleep" /\ wait[c] = 0)

\* Time passes only when no caller is runnable: every caller is woken on
\* time and runs its check at once.
PromptTick ==
    /\ \A c \in Callers : ~Runnable(c)
    /\ ClockTick

NextGateFair ==
    \/ Build
    \/ \E c \in Callers : CallAcquire(c)
    \/ \E c \in Callers : Check(c)
    \/ \E c \in Callers : Wake(c)
    \/ TryAcquire
    \/ TryReturn
    \/ PromptTick
    \/ OpenBurstWindow

SpecGateFair ==
    /\ InitGate
    /\ [][NextGateFair]_vars
    /\ WF_vars(PromptTick)
    /\ \A c \in Callers : WF_vars(Check(c)) /\ WF_vars(Wake(c))

(***************************************************************************)
(* C17, as claimed: every pending acquire is admitted after a finite wait. *)
(***************************************************************************)
C17_EveryAcquireReturns ==
    \A c \in Callers : (cpc[c] # "idle") ~> (cpc[c] = "idle")

(***************************************************************************)
(* The retry executor: one call of BinanceClient::request_with_retry of    *)
(* src/src/client.rs with a factory f whose attempts end as the caller's   *)
(* network decides.                                                        *)
(***************************************************************************)
\* Values of max_retries tried; validate() does not look at the field.
RetryChoices == 0..MaxConfigRetries

\* How an attempt can end: a response, or a reqwest::Error that is a timeout
\* (is_timeout()), a connect failure (is_connect()), both (the connect
\* timed out), or neither.
Outcomes == {"ok", "timeout", "connect", "connect_timeout", "fatal"}
IsTimeout(o) == o \in {"timeout", "connect_timeout"}
IsConnectMutant(o) == o \in {"connect", "connect_timeout", "fatal"}
IsConnect(o) == o \in {"connect", "connect_timeout"}

\* The guard attempts >= max_attempts of the second match arm.
ExhaustedEarly(a, m) == a + 1 >= m
ExhaustedLate(a, m) == a > m
Exhausted(a, m) == a >= m

\* Duration::from_millis(100 * 2u64.pow(attempts - 1)) and the same with 500.
\* With the values of max_retries tried the products stay far below 2^64.
TimeoutDelayMutant(a) == 100 * Pow2(a)
TimeoutDelay(a) == 100 * Pow2(a - 1)
ConnectDelay(a) == 500 * Pow2(a - 1)

\* Responses a request can return. The texts of Retry-After are the strings
\* of at most MaxHeaderLen characters over signs, digits and a letter.
HeaderChars == {"+", "-", "0", "6", "s"}
HeaderTexts == UNION {[1..n -> HeaderChars] : n \in 0..MaxHeaderLen}
Headers ==
    {NoHeader, [form |-> "opaque", text |-> <<>>]}
        \cup {[form |-> "text", text |-> t] : t \in HeaderTexts}
Statuses == {200, 400, 429, 503}
Bodies == {"json", "other"}
Responses == [status : Statuses, retry_after : Headers, body : Bodies]

\* Option::None of the chain that reads the header.
None == -1

\* char::to_digit(10).
ToDigit(ch) == CASE ch = "0" -> 0 [] ch = "6" -> 6 [] OTHER -> None

\* The digit loop of u64::from_str: result = result * 10 + digit, an error
\* for a character that is not a digit. The texts tried are too short for
\* the checked arithmetic to overflow.
RECURSIVE ParseDigits(_, _)
ParseDigits(t, acc) ==
    IF t = <<>> THEN acc
    ELSE IF ToDigit(Head(t)) = None THEN None
    ELSE ParseDigits(Tail(t), acc * 10 + ToDigit(Head(t)))

\* s.parse::<u64>().ok(): the empty string and a lone sign are errors, a
\* leading "+" is skipped, and "-" is not a digit of an unsigned type.
ParseU64Mutant(t) ==
    IF t = <<>> THEN None
    ELSE IF Head(t) \in {"+", "-"}
    THEN (IF Len(t) = 1 THEN None ELSE ParseDigits(Tail(t), 0))
    ELSE ParseDigits(t, 0)
ParseU64(t) ==
    IF t = <<>> THEN None
    ELSE IF Len(t) = 1 /\ Head(t) \in {"+", "-"} THEN None
    ELSE IF Head(t) = "+" THEN ParseDigits(Tail(t), 0)
    ELSE ParseDigits(t, 0)

\* .unwrap_or(60)
RetryAfterDefault == 60

\* headers().get("Retry-After").and_then(to_str).and_then(parse).unwrap_or
RetryAfter(h) ==
    LET v == IF h.form = "text" THEN ParseU64(h.text) ELSE None
    IN  IF v = None THEN RetryAfterDefault ELSE v

\* The code of the error body of the mock server's 400 response.
BodyCode == -1121

Value == [kind |-> "value", code |-> 0, retry_after_seconds |-> 0]
ApiError(code) ==
    [kind |-> "api_error", code |-> code, retry_after_seconds |-> 0]
RateLimitExceeded(n) ==
    [kind |-> "rate_limit", code |-> 0, retry_after_seconds |-> n]

\* handle_response: the match on the status.
Handled(r) ==
    CASE r.status = 200 ->
            IF r.body = "json" THEN Value ELSE ApiError(0)
      [] r.status = 400 ->
            IF r.body = "json" THEN ApiError(BodyCode) ELSE ApiError(400)
      [] r.status = 429 -> RateLimitExceeded(RetryAfter(r.retry_after))
      [] OTHER -> ApiError(r.status)

\* if !self.config.enable_retries
RetriesDisabledMutant == FALSE
RetriesDisabled == ~enable_retries

InitRetry ==
    /\ WsParked
    /\ GateInit
    /\ CallsParked
    /\ WideParked
    /\ enable_retries \in BOOLEAN
    /\ cfg_max_retries \in RetryChoices
    /\ rpc = "start"
    /\ max_attempts = 0
    /\ rattempts = 0
    /\ calls = 0
    /\ fails = <<>>
    /\ delay = 0
    /\ sleeps = 0
    /\ result = "none"
    /\ response = NoResponse
    /\ handled = NotHandled

\* The call without retries: return f().await.map_err(Error::HttpError).
SingleAttempt ==
    /\ rpc = "start"
    /\ RetriesDisabled
    /\ calls' = calls + 1
    /\ \E o \in Outcomes, r \in Responses :
        /\ fails' = IF o = "ok" THEN fails ELSE Append(fails, o)
        /\ result' = IF o = "ok" THEN "ok" ELSE "err"
        /\ response' = IF o = "ok" THEN r ELSE response
    /\ rpc' = "done"
    /\ UNCHANGED <<enable_retries, cfg_max_retries, max_attempts, rattempts,
                   delay, sleeps, handled>>
    /\ UNCHANGED <<wsVars, gateVars, callVars, wideVars>>

\* let mut attempts = 0; let max_attempts = self.config.max_retries + 1;
\* with the values of max_retries tried the u32 sum does not overflow.
EnterLoop ==
    /\ rpc = "start"
    /\ ~RetriesDisabled
    /\ rpc' = "call"
    /\ max_attempts' = cfg_max_retries + 1
    /\ UNCHANGED <<enable_retries, cfg_max_retries, rattempts, calls, fails,
                   delay, sleeps, result, response, handled>>
    /\ UNCHANGED <<wsVars, gateVars, callVars, wideVars>>

\* One round of the loop: attempts += 1; match f().await { .. }.
Attempt ==
    /\ rpc = "call"
    /\ rattempts' = rattempts + 1
    /\ calls' = calls + 1
    /\ \E o \in Outcomes, r \in Responses :
        /\ fails' = IF o = "ok" THEN fails ELSE Append(fails, o)
        /\ response' = IF o = "ok" THEN r ELSE response
        /\ IF o = "ok"
           THEN rpc' = "done" /\ result' = "ok" /\ UNCHANGED <<delay, sleeps>>
           ELSE IF Exhausted(rattempts', max_attempts)
           THEN rpc' = "done" /\ result' = "err" /\ UNCHANGED <<delay, sleeps>>
           ELSE IF IsTimeout(o)
           THEN /\ rpc' = "sleep"
                /\ delay' = TimeoutDelay(rattempts')
                /\ sleeps' = sleeps + 1
                /\ UNCHANGED result
           ELSE IF IsConnect(o)
           THEN /\ rpc' = "sleep"
                /\ delay' = ConnectDelay(rattempts')
                /\ sleeps' = sleeps + 1
                /\ UNCHANGED result
           ELSE rpc' = "done" /\ result' = "err" /\ UNCHANGED <<delay, sleeps>>
    /\ UNCHANGED <<enable_retries, cfg_max_retries, max_attempts, handled>>
    /\ UNCHANGED <<wsVars, gateVars, callVars, wideVars>>

\* sleep(delay).await ends; continue.
BackoffDone ==
    /\ rpc = "sleep"
    /\ rpc' = "call"
    /\ delay' = 0
    /\ UNCHANGED <<enable_retries, cfg_max_retries, max_attempts, rattempts,
                   calls, fails, sleeps, result, response, handled>>
    /\ UNCHANGED <<wsVars, gateVars, callVars, wideVars>>

\* self.handle_response(response).await of the endpoint, after
\* request_with_retry returned Ok(response).
HandleResponse ==
    /\ rpc = "done"
    /\ result = "ok"
    /\ handled = NotHandled
    /\ handled' = Handled(response)
    /\ UNCHANGED <<enable_retries, cfg_max_retries, rpc, max_attempts,
                   rattempts, calls, fails, delay, sleeps, result, response>>
    /\ UNCHANGED <<wsVars, gateVars, callVars, wideVars>>

NextRetry ==
    \/ SingleAttempt
    \/ EnterLoop
    \/ Attempt
    \/ BackoffDone
    \/ HandleResponse

SpecRetry == InitRetry /\ [][NextRetry]_vars

RetryTypeOK ==
    /\ rpc \in {"start", "call", "sleep", "done"}
    /\ result \in {"none", "ok", "err"}
    /\ max_attempts \in 0..(MaxConfigRetries + 1)
    /\ rattempts \in 0..(MaxConfigRetries + 1)
    /\ delay \in 0..(500 * Pow2(MaxConfigRetries))

(***************************************************************************)
(* Helpers of the retry properties.                                        *)
(***************************************************************************)
Retryable(o) == IsTimeout(o) \/ IsConnect(o)
AllRetryable(q) == \A i \in 1..Len(q) : Retryable(q[i])

(***************************************************************************)
(* C19: with retries enabled, as long as the failures were retryable and   *)
(* fewer than max_attempts the call goes on, every failure having cost one *)
(* invocation of the factory; a success after k such failures is returned, *)
(* the factory having been invoked k + 1 times; an error is returned only  *)
(* for a failure that is not retryable or for the failure of attempt       *)
(* number max_attempts.                                                    *)
(***************************************************************************)
C19_SuccessAfterRetries ==
    enable_retries =>
        /\ rpc \in {"call", "sleep"}
            => /\ result = "none"
               /\ calls = Len(fails)
               /\ AllRetryable(fails)
               /\ Len(fails) < max_attempts
        /\ result = "ok"
            => /\ rpc = "done"
               /\ calls = Len(fails) + 1
               /\ AllRetryable(fails)
               /\ Len(fails) < max_attempts
        /\ result = "err"
            => /\ calls = Len(fails)
               /\ \/ ~Retryable(fails[Len(fails)])
                  \/ Len(fails) >= max_attempts

\* max_retries = 2, so max_attempts = 3: two timeouts, then the success.
C19_Witness ==
    /\ enable_retries
    /\ cfg_max_retries = 2
    /\ fails = <<"timeout", "timeout">>
    /\ calls = 3
    /\ result = "ok"

(***************************************************************************)
(* C20: the factory is never invoked more than max_retries + 1 times, and  *)
(* with retries enabled the failure of the attempt number max_retries + 1  *)
(* ends the call with that error and without a further sleep, whatever its *)
(* kind.                                                                   *)
(***************************************************************************)
C20_AttemptsBounded ==
    /\ [](calls <= cfg_max_retries + 1)
    /\ [](sleeps <= cfg_max_retries)
    /\ [][(enable_retries /\ calls' = cfg_max_retries + 1
            /\ Len(fails') > Len(fails))
            => /\ result' = "err"
               /\ rpc' = "done"
               /\ sleeps' = sleeps
               /\ delay' = 0]_vars

\* The default of 3 retries: the fourth attempt failed with a timeout and
\* the call ended after 3 sleeps.
C20_Witness ==
    /\ enable_retries
    /\ cfg_max_retries = default_max_retries
    /\ calls = 4
    /\ sleeps = 3
    /\ fails[4] = "timeout"
    /\ result = "err"
    /\ rpc = "done"

(***************************************************************************)
(* C21: a failure that is neither a timeout nor a connect failure ends the *)
(* call at that attempt: the step that meets it returns the error without  *)
(* starting a sleep, so a fatal failure is always the last one of a call,  *)
(* and a call whose first failure is fatal has invoked the factory exactly *)
(* once and never slept.                                                   *)
(***************************************************************************)
C21_FatalStopsAtOnce ==
    /\ [][(Len(fails') > Len(fails) /\ fails'[Len(fails')] = "fatal")
            => /\ rpc' = "done"
               /\ result' = "err"
               /\ calls' = Len(fails')
               /\ sleeps' = sleeps
               /\ delay' = 0]_vars
    /\ [](\A i \in 1..Len(fails) :
            fails[i] = "fatal"
                => /\ i = Len(fails)
                   /\ calls = i
                   /\ sleeps = i - 1
                   /\ rpc = "done"
                   /\ result = "err")

\* Retries enabled with the default of 3: the first attempt failed fatally.
C21_Witness ==
    /\ enable_retries
    /\ cfg_max_retries = default_max_retries
    /\ fails = <<"fatal">>
    /\ calls = 1
    /\ sleeps = 0
    /\ result = "err"

(***************************************************************************)
(* C22 as stated: the wait after the failed attempt number a is            *)
(* 100 ms * 2^(a-1) when the failure is a timeout and 500 ms * 2^(a-1)     *)
(* when it is a connect failure.                                           *)
(***************************************************************************)
C22_DelayByKind ==
    [][(rpc' = "sleep" /\ Len(fails') > Len(fails))
        => LET a == Len(fails')
               o == fails'[a]
           IN  /\ IsTimeout(o) => delay' = 100 * Pow2(a - 1)
               /\ IsConnect(o) => delay' = 500 * Pow2(a - 1)]_vars

(***************************************************************************)
(* C22, amended: the wait after the failed attempt number a (a <           *)
(* max_attempts) is 100 ms * 2^(a-1) when the failure is a timeout, a      *)
(* connect that timed out included, and 500 ms * 2^(a-1) when it is a      *)
(* connect failure that is not a timeout; it depends on the kind of this   *)
(* failure and on a only, not on the kinds of the earlier failures.        *)
(***************************************************************************)
C22_DelayByKindAmended ==
    /\ [][(rpc' = "sleep" /\ Len(fails') > Len(fails))
            => LET a == Len(fails')
                   o == fails'[a]
               IN  /\ a = rattempts'
                   /\ a < max_attempts
                   /\ IsTimeout(o) => delay' = 100 * Pow2(a - 1)
                   /\ (IsConnect(o) /\ ~IsTimeout(o))
                        => delay' = 500 * Pow2(a - 1)]_vars
    /\ [](rpc = "sleep"
            => /\ Len(fails) >= 1
               /\ delay \in {100 * Pow2(Len(fails) - 1),
                             500 * Pow2(Len(fails) - 1)})

\* A connect failure, then a timeout: the second wait is 200 ms as it is
\* after two timeouts.
C22_Witness ==
    /\ fails = <<"connect", "timeout">>
    /\ rpc = "sleep"
    /\ delay = 200

(***************************************************************************)
(* C23: with enable_retries false the factory is invoked exactly once and  *)
(* its outcome is the outcome of the call, whatever the kind of a failure: *)
(* the loop is never entered, no attempt is counted and nothing sleeps.    *)
(***************************************************************************)
C23_NoRetriesSingleCall ==
    ~enable_retries =>
        /\ rpc \in {"start", "done"}
        /\ max_attempts = 0
        /\ rattempts = 0
        /\ sleeps = 0
        /\ delay = 0
        /\ rpc = "start" => (calls = 0 /\ fails = <<>> /\ result = "none")
        /\ rpc = "done"
            => /\ calls = 1
               /\ Len(fails) <= 1
               /\ result = (IF fails = <<>> THEN "ok" ELSE "err")

\* Retries disabled: the single attempt timed out and the call returned.
C23_Witness ==
    /\ ~enable_retries
    /\ fails = <<"timeout">>
    /\ calls = 1
    /\ result = "err"
    /\ rpc = "done"

(***************************************************************************)
(* Helpers of the throttling property: the texts that denote an integer    *)
(* (an optional sign, then decimal digits) and the integer denoted.        *)
(***************************************************************************)
IsDigitChar(ch) == ch \in {"0", "6"}
AllDigits(t) == Len(t) >= 1 /\ \A i \in 1..Len(t) : IsDigitChar(t[i])
RECURSIVE DecimalValue(_)
DecimalValue(t) ==
    IF t = <<>> THEN 0
    ELSE (IF t[Len(t)] = "6" THEN 6 ELSE 0)
            + 10 * DecimalValue(SubSeq(t, 1, Len(t) - 1))
IsInteger(t) ==
    \/ AllDigits(t)
    \/ Len(t) >= 2 /\ t[1] \in {"+", "-"} /\ AllDigits(Tail(t))
IntegerValue(t) ==
    IF t[1] = "-" THEN 0 - DecimalValue(Tail(t))
    ELSE IF t[1] = "+" THEN DecimalValue(Tail(t))
    ELSE DecimalValue(t)
IsUnsigned(t) ==
    \/ AllDigits(t)
    \/ Len(t) >= 2 /\ t[1] = "+" /\ AllDigits(Tail(t))

(***************************************************************************)
(* C24 as stated: the error returned for a 429 response carries the        *)
(* integer value of the Retry-After header, or 60 when the header is       *)
(* missing or not an integer.                                              *)
(***************************************************************************)
C24_RetryAfterIsHeaderValue ==
    (response.status = 429 /\ handled # NotHandled)
        => /\ handled.kind = "rate_limit"
           /\ handled.retry_after_seconds =
                IF response.retry_after.form = "text"
                    /\ IsInteger(response.retry_after.text)
                THEN IntegerValue(response.retry_after.text)
                ELSE 60

(***************************************************************************)
(* C24, amended: a 429 response is never retried, with retries enabled or  *)
(* disabled: it ends request_with_retry at the attempt that received it,   *)
(* no request and no sleep follow, and the call returns RateLimitExceeded  *)
(* whose retry_after_seconds is the value of the Retry-After header when   *)
(* the header is a decimal integer without a minus sign, and 60 when the   *)
(* header is missing, not a text, not an integer, or negative.             *)
(***************************************************************************)
C24_ThrottlingNotRetried ==
    /\ [](response.status = 429
            => /\ rpc = "done"
               /\ result = "ok"
               /\ calls = Len(fails) + 1)
    /\ [][response # NoResponse
            => /\ response' = response
               /\ calls' = calls
               /\ sleeps' = sleeps
               /\ rpc' = "done"]_vars
    /\ []((response.status = 429 /\ handled # NotHandled)
            => /\ handled.kind = "rate_limit"
               /\ handled.retry_after_seconds =
                    IF response.retry_after.form = "text"
                        /\ IsUnsigned(response.retry_after.text)
                    THEN IntegerValue(response.retry_after.text)
                    ELSE 60)

\* Retries enabled: a timeout, then a 429 response with Retry-After: 6.
C24_Witness ==
    /\ enable_retries
    /\ fails = <<"timeout">>
    /\ calls = 2
    /\ response.status = 429
    /\ response.retry_after = [form |-> "text", text |-> <<"6">>]
    /\ handled = RateLimitExceeded(6)

(***************************************************************************)
(* The gate used by one sequential caller: a task that calls acquire again *)
(* as soon as the previous call returned, as the loops of the tests do,    *)
(* and whose sleeps end on time. Time passes only while it sleeps.         *)
(***************************************************************************)
SoloTick ==
    /\ cpc[1] = "sleep"
    /\ wait[1] > 0
    /\ ClockTick

NextSolo ==
    \/ Build
    \/ CallAcquire(1)
    \/ Check(1)
    \/ Wake(1)
    \/ SoloTick

SpecSolo == InitGate /\ [][NextSolo]_vars

(***************************************************************************)
(* C27: for a fresh gate with burst b and one sequential caller, the first *)
(* b acquires return at the instant of the first call and the k-th         *)
(* acquire, k > b, returns exactly k - b replenish intervals (Period ticks *)
(* each, (k - b) / r seconds) later; a refused caller sleeps no longer     *)
(* than one interval.                                                      *)
(***************************************************************************)
C27_NoOverThrottle ==
    /\ [][admitted' = admitted + 1
            => clock = IF admitted' <= quota.burst THEN 0
                       ELSE (admitted' - quota.burst) * Period]_vars
    /\ [](cpc[1] = "sleep" => wait[1] <= Period)

\* RateLimiter::new(60), burst 1: the third acquire has just returned, two
\* replenish intervals (2 s) after the first.
C27_Witness ==
    /\ quota.path = "new"
    /\ quota.n = 60
    /\ admitted = 3
    /\ clock = 2 * Period
    /\ lastAdmit = clock
    /\ cpc[1] = "idle"

\* The permits granted at the present instant, counted by an observer who
\* started counting at this instant.
GrantedNow == winCount

(***************************************************************************)
(* C28 as stated: RateLimiter::new(rpm) builds a gate whose burst is       *)
(* max(1, ceil(rpm / 60)), and after any idle period at most burst         *)
(* requests are admitted with no wait: the permits granted at one instant  *)
(* never exceed the burst.                                                 *)
(***************************************************************************)
C28_BurstCapsIdleBudget ==
    (gate = "ready" /\ quota.path \in {"new", "client"})
        => /\ quota.burst = Max(1, (quota.n + 59) \div 60)
           /\ (winKind = "burst" /\ winAge = 0) => GrantedNow <= quota.burst

(***************************************************************************)
(* C29: try_acquire takes no time, and a refused try_acquire changes       *)
(* nothing of the gate: not its state, not the clock, not the callers of   *)
(* acquire and their waits; the gate refuses and admits after it exactly   *)
(* as it did before it.                                                    *)
(***************************************************************************)
C29_RefusalChangesNothing ==
    /\ [][TryStep => clock' = clock /\ cpc' = cpc /\ wait' = wait]_vars
    /\ [][(TryStep /\ tryRes' = "none")
            => /\ tat' = tat
               /\ admitted' = admitted
               /\ ~Conforms(quota, tat)
               /\ WaitTime(quota, tat') = WaitTime(quota, tat)]_vars
    /\ [][(TryStep /\ tryRes' = "some") => Conforms(quota, tat)]_vars

\* per_second(2): both permits taken at the construction, a try_acquire just
\* refused; the gate's state is the one the two permits left.
C29_Witness ==
    /\ quota.path = "per_second"
    /\ quota.n = 2
    /\ clock = 0
    /\ admitted = 2
    /\ tryRes = "none"
    /\ tat = [some |-> TRUE, lag |-> 3 * Period]

(***************************************************************************)
(* C30 as stated: for every subscription kind, each end of an Active phase *)
(* that is not caused by the consumer being gone (close frame, read error, *)
(* end of stream, failed pong) makes the task push one error envelope, and *)
(* the push of that envelope, appended behind the envelopes already in the *)
(* channel, is followed by the 5 second backoff.                           *)
(***************************************************************************)
C30_ErrorEnvelopeAtEndOfActive ==
    /\ [][(pc \in {"read", "pong"} /\ pc' \notin {"read", "pong", "send"})
            => /\ pc' = "send_err"
               /\ pending'.tag \in {"closed", "ws_err"}
               /\ chan' = chan]_vars
    /\ [][(pc = "send_err" /\ pc' # "send_err")
            => /\ pc' = "backoff"
               /\ timer' = 5
               /\ rxAlive => chan' = Append(chan, pending)]_vars

(***************************************************************************)
(* The endpoints of BinanceClient called by several tasks on one client.   *)
(* A data endpoint (get_ticker_price, get_all_ticker_prices,               *)
(* get_ticker_24h, get_klines, get_klines_range, get_depth,                *)
(* get_recent_trades, get_exchange_info, get_server_time) runs             *)
(* request_with_retry over the closure                                     *)
(*     || async { self.rate_limiter.acquire().await;                       *)
(*                self.http_client.get(&url).send().await }                *)
(* and ping (health_check calls it) sends at once. The limiter is the one  *)
(* BinanceClient::new built; the backoff sleeps are in milliseconds and    *)
(* are not measured against the limiter's ticks.                           *)
(***************************************************************************)
Endpoints == {"data", "ping"}

\* let mut attempts = 0 is a local of the call: each call reads and writes
\* its own counter.
OwnMutant(c) == 1
Own(c) == c

\* self.rate_limiter.acquire().await has returned the permit.
PermitInHandMutant(c) == TRUE
PermitInHand(c) == cpc[c] = "idle"

\* The requests_per_minute of the shared client: one permit per second,
\* burst 1.
ClientRpmChoices == {60}

\* The client exists: BinanceClient::new(config) returned Ok for a config
\* that passes validate(), nothing has been requested yet.
InitClient ==
    /\ WsParked
    /\ \E n \in ClientRpmChoices, t \in TimeoutChoices :
        /\ ClientNew(n, t, TRUE).gate = "ready"
        /\ gate = "ready"
        /\ quota = ClientNew(n, t, TRUE).quota
    /\ tat = [some |-> FALSE, lag |-> 0]
    /\ clock = 0
    /\ admitted = 0
    /\ lastAdmit = 0
    /\ cpc = [c \in Callers |-> "idle"]
    /\ wait = [c \in Callers |-> 0]
    /\ tryRes = "idle"
    /\ winKind = "none"
    /\ winAge = 0
    /\ winCount = 0
    /\ enable_retries \in BOOLEAN
    /\ cfg_max_retries \in 0..MaxClientRetries
    /\ rpc = "idle"
    /\ max_attempts = 0
    /\ rattempts = 0
    /\ calls = 0
    /\ fails = <<>>
    /\ delay = 0
    /\ sleeps = 0
    /\ result = "none"
    /\ response = NoResponse
    /\ handled = NotHandled
    /\ CallsParked
    /\ WideParked

\* The call returns, a value or an error; its locals are gone.
Returned(c) ==
    /\ epc' = [epc EXCEPT ![c] = "done"]
    /\ eattempts' = [eattempts EXCEPT ![Own(c)] = 0]
    /\ emax' = [emax EXCEPT ![c] = 0]
    /\ elast' = [elast EXCEPT ![c] = "none"]
    /\ edelay' = [edelay EXCEPT ![c] = 0]

\* A task that is not in a call calls an endpoint: the call begins with
\* nothing sent, invoked or retried.
Begin(c, e) ==
    /\ epc[c] \in {"idle", "done", "rejected"}
    /\ endpoint' = [endpoint EXCEPT ![c] = e]

\* ping: self.http_client.get(&url).send().await.map_err(Error::HttpError)?
\* and Ok(response.status() == StatusCode::OK).
CallPing(c) ==
    /\ Begin(c, "ping")
    /\ esent' = [esent EXCEPT ![c] = 1]
    /\ einvoked' = [einvoked EXCEPT ![c] = 0]
    /\ eretries' = [eretries EXCEPT ![c] = 0]
    /\ Returned(c)
    /\ UNCHANGED <<sent, elimit>>
    /\ UNCHANGED <<wsVars, gateVars, reqVars, wideVars>>

\* The closure is invoked: it calls self.rate_limiter.acquire().
Invoke(c) ==
    /\ epc' = [epc EXCEPT ![c] = "permit"]
    /\ cpc' = [cpc EXCEPT ![c] = "check"]
    /\ UNCHANGED <<gate, quota, tat, clock, admitted, lastAdmit, wait, tryRes,
                   winKind, winAge, winCount>>

\* request_with_retry with retries disabled: return f().await.
Single(c, e) ==
    /\ Begin(c, e)
    /\ RetriesDisabled
    /\ Invoke(c)
    /\ einvoked' = [einvoked EXCEPT ![c] = 1]
    /\ esent' = [esent EXCEPT ![c] = 0]
    /\ eretries' = [eretries EXCEPT ![c] = 0]
    /\ UNCHANGED <<eattempts, emax, elast, edelay, sent>>
    /\ UNCHANGED <<wsVars, reqVars, wideVars>>

CallSingle(c) == Single(c, "data") /\ UNCHANGED elimit

\* let mut attempts = 0; let max_attempts = self.config.max_retries + 1;
EnterLoopOf(c, e) ==
    /\ Begin(c, e)
    /\ ~RetriesDisabled
    /\ epc' = [epc EXCEPT ![c] = "loop"]
    /\ eattempts' = [eattempts EXCEPT ![Own(c)] = 0]
    /\ emax' = [emax EXCEPT ![c] = cfg_max_retries + 1]
    /\ einvoked' = [einvoked EXCEPT ![c] = 0]
    /\ esent' = [esent EXCEPT ![c] = 0]
    /\ eretries' = [eretries EXCEPT ![c] = 0]
    /\ UNCHANGED <<elast, edelay, sent>>
    /\ UNCHANGED <<wsVars, gateVars, reqVars, wideVars>>

CallEnterLoop(c) == EnterLoopOf(c, "data") /\ UNCHANGED elimit

\* The head of a round of the loop: attempts += 1; f() is invoked.
CallAttempt(c) ==
    /\ epc[c] = "loop"
    /\ eattempts' = [eattempts EXCEPT ![Own(c)] = @ + 1]
    /\ Invoke(c)
    /\ einvoked' = [einvoked EXCEPT ![c] = @ + 1]
    /\ UNCHANGED <<endpoint, emax, esent, eretries, elast, edelay, sent,
                   elimit>>
    /\ UNCHANGED <<wsVars, reqVars, wideVars>>

\* With the permit, self.http_client.get(&url).send().await: the request is
\* sent and ends as the network decides; then the match of the loop, or the
\* return of the call when retries are disabled.
CallSend(c) ==
    /\ epc[c] = "permit"
    /\ PermitInHand(c)
    /\ esent' = [esent EXCEPT ![c] = @ + 1]
    /\ sent' = IF clock < MaxTime THEN sent + 1 ELSE sent
    /\ \E o \in Outcomes :
        IF o = "ok"
        THEN Returned(c)
        ELSE IF RetriesDisabled
        THEN Returned(c)
        ELSE IF Exhausted(eattempts[Own(c)], emax[c])
        THEN Returned(c)
        ELSE IF IsTimeout(o)
        THEN /\ epc' = [epc EXCEPT ![c] = "sleep"]
             /\ edelay' = [edelay EXCEPT
                             ![c] = TimeoutDelay(eattempts[Own(c)])]
             /\ elast' = [elast EXCEPT ![c] = o]
             /\ UNCHANGED <<eattempts, emax>>
        ELSE IF IsConnect(o)
        THEN /\ epc' = [epc EXCEPT ![c] = "sleep"]
             /\ edelay' = [edelay EXCEPT
                             ![c] = ConnectDelay(eattempts[Own(c)])]
             /\ elast' = [elast EXCEPT ![c] = o]
             /\ UNCHANGED <<eattempts, emax>>
        ELSE Returned(c)
    /\ UNCHANGED <<endpoint, einvoked, eretries, elimit>>
    /\ UNCHANGED <<wsVars, gateVars, reqVars, wideVars>>

\* sleep(delay).await ends; continue.
CallBackoffDone(c) ==
    /\ epc[c] = "sleep"
    /\ epc' = [epc EXCEPT ![c] = "loop"]
    /\ edelay' = [edelay EXCEPT ![c] = 0]
    /\ elast' = [elast EXCEPT ![c] = "none"]
    /\ eretries' = [eretries EXCEPT ![c] = @ + 1]
    /\ UNCHANGED <<endpoint, eattempts, emax, einvoked, esent, sent,
                   elimit>>
    /\ UNCHANGED <<wsVars, gateVars, reqVars, wideVars>>

\* One tick of time passes for the client's limiter; the count of the
\* early requests stops with the count of the early permits.
ClientTick ==
    /\ PassTime
    /\ sent' = IF clock + 1 >= MaxTime THEN 0 ELSE sent
    /\ UNCHANGED <<endpoint, epc, eattempts, emax, einvoked, esent, eretries,
                   elast, edelay, elimit>>
    /\ UNCHANGED <<wsVars, reqVars, wideVars>>

NextClient ==
    \/ \E c \in Callers : CallPing(c)
    \/ \E c \in Callers : CallSingle(c)
    \/ \E c \in Callers : CallEnterLoop(c)
    \/ \E c \in Callers : CallAttempt(c)
    \/ \E c \in Callers : Check(c)
    \/ \E c \in Callers : Wake(c)
    \/ \E c \in Callers : CallSend(c)
    \/ \E c \in Callers : CallBackoffDone(c)
    \/ ClientTick

SpecClient == InitClient /\ [][NextClient]_vars

ClientTypeOK ==
    /\ \A c \in Callers :
        /\ endpoint[c] \in Endpoints \cup {"none", "klines"}
        /\ epc[c] \in {"idle", "loop", "permit", "sleep", "done", "rejected"}
        /\ eattempts[c] \in 0..(MaxClientRetries + 1)
        /\ emax[c] \in 0..(MaxClientRetries + 1)
        /\ einvoked[c] \in 0..(MaxClientRetries + 1)
        /\ esent[c] \in 0..(MaxClientRetries + 1)
    /\ sent \in 0..(MaxRate + MaxTime + 1)

(***************************************************************************)
(* Helpers of the properties of the shared client.                         *)
(***************************************************************************)
\* Everything a call keeps.
CallState(c) ==
    <<endpoint[c], epc[c], eattempts[c], emax[c], einvoked[c], esent[c],
      eretries[c], elast[c], edelay[c]>>

\* This step is the return of task c's acquire.
AcquireReturns(c) == cpc[c] = "check" /\ cpc'[c] = "idle"

(***************************************************************************)
(* C25: each call on a shared client counts its own attempts from 0. The   *)
(* counter of a running call equals the number of times that call invoked  *)
(* its closure, its max_attempts is max_retries + 1, and its backoff delay *)
(* is given by its own attempt number and the kind of its own last         *)
(* failure, whatever the other calls do; a step of one call changes        *)
(* nothing of another call; a call that has not entered the loop or has    *)
(* returned holds no counter, no limit and no delay.                       *)
(***************************************************************************)
C25_OwnAttemptCounter ==
    /\ [](\A c \in Callers :
            /\ epc[c] \in {"idle", "done"}
                => /\ eattempts[c] = 0
                   /\ emax[c] = 0
                   /\ edelay[c] = 0
                   /\ elast[c] = "none"
            /\ (enable_retries /\ epc[c] \in {"loop", "permit", "sleep"})
                => /\ eattempts[c] = einvoked[c]
                   /\ emax[c] = cfg_max_retries + 1
                   /\ einvoked[c] <= emax[c]
                   /\ eretries[c] = IF epc[c] = "loop" THEN einvoked[c]
                                    ELSE einvoked[c] - 1
            /\ epc[c] = "sleep"
                => /\ einvoked[c] < emax[c]
                   /\ edelay[c] = IF IsTimeout(elast[c])
                                  THEN 100 * Pow2(einvoked[c] - 1)
                                  ELSE 500 * Pow2(einvoked[c] - 1))
    /\ [][\A c, d \in Callers :
            (c # d /\ CallState(d)' # CallState(d))
                => CallState(c)' = CallState(c)]_vars

\* Two calls in their backoff at once: the first after its second attempt
\* timed out, the second after its first attempt could not connect.
C25_Witness ==
    /\ epc = <<"sleep", "sleep">>
    /\ einvoked = <<2, 1>>
    /\ eattempts = <<2, 1>>
    /\ elast = <<"timeout", "connect">>
    /\ edelay = <<200, 500>>

(***************************************************************************)
(* C26: a data endpoint sends only with a permit its current attempt       *)
(* acquired: every invocation of the closure calls acquire, the request is *)
(* sent after that acquire returned, and every return of acquire is a      *)
(* permit granted; so the requests sent by data endpoints never exceed the *)
(* permits granted, and a call that retried r times has sent r + 1         *)
(* requests on r + 1 permits. ping sends one request without touching the  *)
(* gate and returns after it, whatever its outcome.                        *)
(***************************************************************************)
C26_PermitPerAttempt ==
    /\ [](clock < MaxTime => sent <= admitted)
    /\ [][\A c \in Callers :
            /\ (endpoint[c] = "data" /\ esent'[c] = esent[c] + 1)
                => /\ epc[c] = "permit"
                   /\ cpc[c] = "idle"
                   /\ epc'[c] # "permit"
            /\ (AcquireReturns(c) /\ clock < MaxTime)
                => admitted' = admitted + 1
            /\ (endpoint'[c] = "ping" /\ CallState(c)' # CallState(c))
                => /\ epc[c] \in {"idle", "done"}
                   /\ esent'[c] = 1
                   /\ epc'[c] = "done"
                   /\ sent' = sent
                   /\ UNCHANGED gateVars]_vars
    /\ [](\A c \in Callers :
            /\ endpoint[c] = "data"
                => /\ esent[c] = IF epc[c] = "permit" THEN einvoked[c] - 1
                                 ELSE einvoked[c]
                   /\ epc[c] = "done" => esent[c] = eretries[c] + 1
            /\ cpc[c] # "idle" => (endpoint[c] = "data" /\ epc[c] = "permit")
            /\ endpoint[c] = "ping"
                => /\ einvoked[c] = 0
                   /\ eretries[c] = 0
                   /\ esent[c] = IF epc[c] = "done" THEN 1 ELSE 0)

\* A data call that retried twice has returned: three requests on three
\* permits; the other task's ping sent a fourth request without a permit.
C26_Witness ==
    /\ clock < MaxTime
    /\ endpoint = <<"data", "ping">>
    /\ epc = <<"done", "done">>
    /\ eretries[1] = 2
    /\ esent = <<3, 1>>
    /\ sent = 3
    /\ admitted = 3

(***************************************************************************)
(* C31: a failed push in raw_stream_handler.                               *)
(***************************************************************************)
\* C31: in the combined/raw stream supervisor a failed push of a text frame
\* makes the task return at once: the step that completes the failed
\* tx.send ends the task with the transport dropped and no sleep started,
\* and a task that has ended opens no transport, starts no sleep and holds
\* no envelope to push any more (its senders are gone with it).
C31_FailedPushEndsRawTask ==
    [][/\ (IsRaw(kind) /\ pc = "send" /\ ~rxAlive /\ pc' # pc)
            => /\ pc' = "done"
               /\ transport' = "none"
               /\ timer' = 0
               /\ pending' = NoEnv
               /\ conns' = conns
               /\ chan' = chan
       /\ pc = "done"
            => /\ pc' = "done"
               /\ transport' = "none"
               /\ pending' = NoEnv
               /\ UNCHANGED <<timer, conns, attempts, frames>>]_vars

\* The raw task has ended because the push of a text frame failed.
C31_Witness ==
    /\ IsRaw(kind)
    /\ pc = "done"
    /\ failedPush = "event"
    /\ ~rxAlive
    /\ transport = "none"
    /\ conns = 1
    /\ frames >= 1
    /\ timer = 0

(***************************************************************************)
(* C32: frames that are neither text, ping nor close.                      *)
(***************************************************************************)
\* C32: a frame that is neither text, ping nor close (binary, pong, raw
\* frame) is ignored in Active: the step that reads it places nothing on the
\* output channel, prepares no envelope, sends nothing on the transport, and
\* leaves the supervisor reading on the same transport.
C32_OtherFrameIgnored ==
    [][(/\ pc = "read"
        /\ lastFrame' = "other"
        /\ lastFrame' # lastFrame \/ pc' # pc \/ pongOut' # pongOut)
          => /\ pc' = "read"
             /\ transport = "open" /\ transport' = "open"
             /\ chan' = chan
             /\ pending = NoEnv /\ pending' = NoEnv
             /\ pongOut' = 0 /\ pingData' = 0
             /\ UNCHANGED <<frames, conns, segStart, attempts, timer,
                            delivered, rxAlive, failedPush>>]_vars

\* A frame of another kind was read after a text frame whose envelope is
\* still in the channel, and the supervisor is reading again.
C32_Witness ==
    /\ lastFrame = "other"
    /\ pc = "read"
    /\ transport = "open"
    /\ frames >= 1
    /\ chan # <<>>
    /\ pending = NoEnv

(***************************************************************************)
(* Opening a subscription: the stream functions ticker_stream,             *)
(* kline_stream, trade_stream, depth_stream, mini_ticker_stream and        *)
(* combined_stream, from the call to the return of the receiver. The       *)
(* spawned task belongs to the runtime from tokio::spawn on: on a          *)
(* multi-threaded runtime it runs beside the caller, on a current-thread   *)
(* runtime only once the caller suspends.                                  *)
(***************************************************************************)
\* The stream function has been called and nothing exists yet.
InitOpen ==
    /\ kind \in Kinds
    /\ pc = "unspawned"
    /\ attempts = 0
    /\ timer = 0
    /\ slept = 0
    /\ transport = "none"
    /\ conns = 0
    /\ frames = 0
    /\ segStart = 0
    /\ pending = NoEnv
    /\ pingData = 0
    /\ pongOut = 0
    /\ lastFrame = "none"
    /\ chan = <<>>
    /\ rxAlive = FALSE
    /\ delivered = <<>>
    /\ failedPush = "none"
    /\ opening = "called"
    /\ GateInit
    /\ RetryParked
    /\ CallsParked
    /\ WideParked

\* let (tx, rx) = mpsc::channel(100); tokio::spawn(async move { .. }): the
\* channel exists, the function holds rx, and the task is handed to the
\* runtime, about to call connect_with_retry.
Subscribe ==
    /\ opening = "called"
    /\ opening' = "spawned"
    /\ pc' = "connect"
    /\ rxAlive' = TRUE
    /\ UNCHANGED <<kind, attempts, timer, slept, transport, conns, frames,
                   segStart, pending, pingData, pongOut, lastFrame, chan,
                   delivered, failedPush>>
    /\ UNCHANGED <<gateVars, reqVars, callVars, wideVars>>

\* Between tokio::spawn and Ok(rx) the function awaits nothing.
ReadyToReturnMutant == opening = "spawned" /\ transport = "open"
ReadyToReturn == opening = "spawned"

\* Ok(rx): the caller gets the receiver.
ReturnReceiver ==
    /\ ReadyToReturn
    /\ opening' = "returned"
    /\ UNCHANGED <<kind, pc, attempts, timer, slept, transport, conns, frames,
                   segStart, pending, pingData, pongOut, lastFrame, chan,
                   rxAlive, delivered, failedPush>>
    /\ UNCHANGED <<gateVars, reqVars, callVars, wideVars>>

NextOpen ==
    \/ Subscribe
    \/ ReturnReceiver
    \/ Next

SpecOpen == InitOpen /\ [][NextOpen]_vars

\* A step of connect_with_retry in which connect_async completed.
ConnectCompleted == pc = "connect" /\ pc' # pc

\* The step in which the stream function returns.
Returns == opening = "spawned" /\ opening' = "returned"

\* C33 as stated: opening a subscription returns the receiver before any
\* connect attempt completes, and every connect failure is reported only
\* in-band as an error envelope on that channel.
C33_ReturnsBeforeAnyConnect ==
    [][/\ ConnectCompleted => opening = "returned"
       /\ Returns => rxAlive' /\ pc' = "connect" /\ conns' = 0
       /\ (ConnectCompleted /\ pc' = "send_err")
            => pending' = Env("connect_err", 0) /\ opening' = opening]_vars

\* C33: opening a subscription never fails and never waits for the
\* connection: once the task is spawned the function can return whatever
\* the task has done by then, its return hands over a live receiver and
\* changes nothing else, and a connect cycle that gives up is reported only
\* in-band, as an error envelope the task pushes, while a failed attempt
\* that is retried reports nothing.
C33_OpenNeverWaits ==
    [][/\ opening = "spawned" => ENABLED ReturnReceiver
       /\ Returns => /\ rxAlive /\ rxAlive'
                     /\ UNCHANGED <<pc, transport, conns, attempts, chan,
                                    pending>>
       /\ (ConnectCompleted /\ pc' = "send_err")
            => /\ pending' = Env("connect_err", 0)
               /\ opening' = opening
               /\ chan' = chan
       /\ (ConnectCompleted /\ pc' = "retry_sleep")
            => UNCHANGED <<pending, chan, opening>>
       /\ opening = "returned" => opening' = "returned"]_vars

\* The function has returned, no transport was ever opened, and the consumer
\* holds the receiver of a channel that carries the connect failure.
C33_Witness ==
    /\ opening = "returned"
    /\ rxAlive
    /\ conns = 0
    /\ Len(chan) = 1
    /\ chan[1] = Env("connect_err", 0)
    /\ pc = "backoff"

(***************************************************************************)
(* get_klines of src/src/client.rs, called again and again by one task on  *)
(* a client whose gate keeps the budget those calls have used.             *)
(***************************************************************************)
\* get_klines: if limit > 1000
MaxKlinesLimit == 1000

\* Values of the limit argument (a usize).
KlinesLimits == {0, 1, MaxKlinesLimit - 1, MaxKlinesLimit, MaxKlinesLimit + 1,
                 2 * MaxKlinesLimit}

\* get_klines: if limit > 1000 { return Err(Error::ConfigError(..)); }
LimitTooLargeMutant(limit) == limit >= MaxKlinesLimit
LimitTooLarge(limit) == limit > MaxKlinesLimit

\* The task that calls get_klines.
KlinesCallers == {1}

\* get_klines up to its first suspension: the check of the limit, which
\* returns Err(ConfigError) at once, or else the url and the entry of
\* request_with_retry with the closure that acquires and sends.
GetKlines(c) ==
    \E limit \in KlinesLimits :
        /\ elimit' = [elimit EXCEPT ![c] = limit]
        /\ IF LimitTooLarge(limit)
           THEN /\ Begin(c, "klines")
                /\ epc' = [epc EXCEPT ![c] = "rejected"]
                /\ eattempts' = [eattempts EXCEPT ![Own(c)] = 0]
                /\ emax' = [emax EXCEPT ![c] = 0]
                /\ einvoked' = [einvoked EXCEPT ![c] = 0]
                /\ esent' = [esent EXCEPT ![c] = 0]
                /\ eretries' = [eretries EXCEPT ![c] = 0]
                /\ UNCHANGED <<elast, edelay, sent>>
                /\ UNCHANGED <<wsVars, gateVars, reqVars, wideVars>>
           ELSE Single(c, "klines") \/ EnterLoopOf(c, "klines")

NextKlines ==
    \/ \E c \in KlinesCallers : GetKlines(c)
    \/ \E c \in KlinesCallers : CallAttempt(c)
    \/ \E c \in KlinesCallers : Check(c)
    \/ \E c \in KlinesCallers : Wake(c)
    \/ \E c \in KlinesCallers : CallSend(c)
    \/ \E c \in KlinesCallers : CallBackoffDone(c)
    \/ ClientTick

SpecKlines == InitClient /\ [][NextKlines]_vars

\* The step in which a task that is not in a call calls get_klines.
KlinesCalled(c) ==
    /\ epc[c] \in {"idle", "done", "rejected"}
    /\ endpoint'[c] = "klines"
    /\ <<epc[c], elimit[c], einvoked[c], esent[c]>>'
         # <<epc[c], elimit[c], einvoked[c], esent[c]>>

\* C34: get_klines with limit > 1000 returns Err(ConfigError) without
\* acquiring a permit and without sending any request, the gate's state
\* being what it was; with limit <= 1000 the call enters request_with_retry,
\* and when it has returned it has acquired and sent at least once.
C34_KlinesLimitChecked ==
    [][\A c \in KlinesCallers :
        /\ (KlinesCalled(c) /\ elimit'[c] > 1000)
             => /\ epc'[c] = "rejected"
                /\ einvoked'[c] = 0
                /\ esent'[c] = 0
                /\ sent' = sent
                /\ cpc'[c] = "idle"
                /\ UNCHANGED gateVars
        /\ (KlinesCalled(c) /\ elimit'[c] <= 1000)
             => /\ epc'[c] \in {"permit", "loop"}
                /\ epc'[c] = "permit" => cpc'[c] = "check"
        /\ (endpoint[c] = "klines" /\ epc[c] = "done")
             => elimit[c] <= 1000 /\ einvoked[c] >= 1 /\ esent[c] >= 1
        /\ epc[c] = "rejected"
             => elimit[c] > 1000 /\ einvoked[c] = 0 /\ esent[c] = 0]_vars

\* A call with limit 1001 was refused on a client whose gate has already
\* granted a permit to an earlier call, which sent its request.
C34_Witness ==
    /\ endpoint[1] = "klines"
    /\ epc[1] = "rejected"
    /\ elimit[1] = 1001
    /\ esent[1] = 0
    /\ clock < MaxTime
    /\ admitted >= 1
    /\ sent >= 1

(***************************************************************************)
(* request_with_retry of src/src/client.rs with integers of the width of   *)
(* their types: max_retries, max_attempts and attempts are u32, the        *)
(* milliseconds of a backoff are u64. BinanceClientBuilder::max_retries    *)
(* stores any u32 and validate() does not look at it. Retries are enabled. *)
(***************************************************************************)
\* One limb holds 16 bits.
Limb == Pow2(16)

\* The u32 of a small number, and u32::MAX.
U32Of(n) == <<n % Limb, n \div Limb>>
U32Max == <<Limb - 1, Limb - 1>>

\* 1u64
One64 == <<1, 0, 0, 0>>

\* x * m + k for a number x in limbs and small m and k: the value wrapped to
\* the width of x, and whether a carry left the top limb.
RECURSIVE MulAdd(_, _, _)
MulAdd(x, m, k) ==
    IF x = <<>>
    THEN [val |-> <<>>, over |-> k > 0]
    ELSE LET t == Head(x) * m + k
             r == MulAdd(Tail(x), m, t \div Limb)
         IN [val |-> <<t % Limb>> \o r.val, over |-> r.over]

\* a >= b for two numbers of the same width.
RECURSIVE GeqLimbs(_, _)
GeqLimbs(a, b) ==
    LET n == Len(a) IN
    IF n = 0 THEN TRUE
    ELSE IF a[n] # b[n] THEN a[n] > b[n]
    ELSE GeqLimbs(SubSeq(a, 1, n - 1), SubSeq(b, 1, n - 1))

\* self.config.max_retries + 1
MaxAttemptsOf(r) == MulAdd(r, 1, 1)

\* 2u64.pow(e): the bit e of the 64, in the limb that holds it; from e = 64
\* on the product leaves the 64 bits and the wrapped value is 0.
PowTwo(e) ==
    IF e >= 4 * 16
    THEN [val |-> <<0, 0, 0, 0>>, over |-> TRUE]
    ELSE [val |-> [i \in 1..4 |-> IF i = (e \div 16) + 1
                                  THEN Pow2(e % 16) ELSE 0],
          over |-> FALSE]

\* base * 2u64.pow(attempts - 1): the wrapped value and the operation that
\* overflowed, the power being computed first.
BackoffMillis(base, a) ==
    LET p == PowTwo(a - 1)
        m == MulAdd(p.val, base, 0)
    IN [val |-> m.val,
        over |-> IF p.over THEN "pow" ELSE IF m.over THEN "mul" ELSE "none"]

\* Duration::from_millis(100 * 2u64.pow(attempts - 1))
WideTimeoutDelay(a) == BackoffMillis(100, a)
\* Duration::from_millis(500 * 2u64.pow(attempts - 1))
WideConnectDelay(a) == BackoffMillis(500, a)

\* Values given to BinanceClientBuilder::max_retries.
WideRetryChoices ==
    {U32Of(0), U32Of(default_max_retries), U32Of(MaxWideAttempts),
     <<Limb - 2, Limb - 1>>, U32Max}

InitWide ==
    /\ WsParked
    /\ GateInit
    /\ RetryParked
    /\ CallsParked
    /\ wbuild \in {"debug", "release"}
    /\ wcfg \in WideRetryChoices
    /\ wpc = "idle"
    /\ wmax = <<0, 0>>
    /\ watt = 0
    /\ wdelay = <<0, 0, 0, 0>>
    /\ wover = "none"

\* An arithmetic operation overflowed: with overflow checks the thread
\* panics, without them the wrapped value is used and the call goes on.
Overflowed(op, goOn) ==
    /\ wover' = IF wover = "none" THEN op ELSE wover
    /\ IF wbuild = "debug"
       THEN wpc' = "panicked" /\ UNCHANGED <<wmax, wdelay>>
       ELSE goOn

\* let mut attempts = 0; let max_attempts = self.config.max_retries + 1;
WideEnterLoop ==
    /\ wpc = "idle"
    /\ watt' = 0
    /\ LET m == MaxAttemptsOf(wcfg) IN
        IF m.over
        THEN Overflowed("add", /\ wpc' = "loop"
                               /\ wmax' = m.val
                               /\ UNCHANGED wdelay)
        ELSE /\ wpc' = "loop"
             /\ wmax' = m.val
             /\ UNCHANGED <<wdelay, wover>>
    /\ UNCHANGED <<wbuild, wcfg>>
    /\ UNCHANGED <<wsVars, gateVars, reqVars, callVars>>

\* The backoff of a failed attempt that is retried.
WideBackoff(d) ==
    IF d.over # "none"
    THEN Overflowed(d.over, /\ wpc' = "sleep"
                            /\ wdelay' = d.val
                            /\ UNCHANGED wmax)
    ELSE /\ wpc' = "sleep"
         /\ wdelay' = d.val
         /\ UNCHANGED <<wmax, wover>>

\* One round of the loop: attempts += 1, f().await, and the match.
WideAttempt ==
    /\ wpc = "loop"
    /\ watt < MaxWideAttempts
    /\ watt' = watt + 1
    /\ \E o \in Outcomes :
        IF o = "ok" \/ GeqLimbs(U32Of(watt + 1), wmax)
        THEN wpc' = "done" /\ UNCHANGED <<wmax, wdelay, wover>>
        ELSE IF IsTimeout(o)
        THEN WideBackoff(WideTimeoutDelay(watt + 1))
        ELSE IF IsConnect(o)
        THEN WideBackoff(WideConnectDelay(watt + 1))
        ELSE wpc' = "done" /\ UNCHANGED <<wmax, wdelay, wover>>
    /\ UNCHANGED <<wbuild, wcfg>>
    /\ UNCHANGED <<wsVars, gateVars, reqVars, callVars>>

\* sleep(delay).await ends; continue.
WideBackoffDone ==
    /\ wpc = "sleep"
    /\ wpc' = "loop"
    /\ wdelay' = <<0, 0, 0, 0>>
    /\ UNCHANGED <<wbuild, wcfg, wmax, watt, wover>>
    /\ UNCHANGED <<wsVars, gateVars, reqVars, callVars>>

NextWide ==
    \/ WideEnterLoop
    \/ WideAttempt
    \/ WideBackoffDone

SpecWide == InitWide /\ [][NextWide]_vars

WideTypeOK ==
    /\ wbuild \in {"debug", "release"}
    /\ wcfg \in WideRetryChoices
    /\ wpc \in {"idle", "loop", "sleep", "done", "panicked"}
    /\ wmax \in (0..(Limb - 1)) \X (0..(Limb - 1))
    /\ watt \in 0..MaxWideAttempts
    /\ Len(wdelay) = 4 /\ \A i \in 1..4 : wdelay[i] \in 0..(Limb - 1)
    /\ wover \in {"none", "add", "pow", "mul"}

\* C35: for every max_retries a caller can configure the retry arithmetic
\* stays in range: max_retries + 1 does not overflow u32, and
\* 100 * 2^(attempts-1) and 500 * 2^(attempts-1) do not overflow u64 for any
\* attempt number the loop reaches.
C35_RetryArithmeticInRange == wover = "none" /\ wpc # "panicked"

====
